---------------------------- MODULE Spec2Model ----------------------------
(***************************************************************************)
(* A model of swarm.py, the "Maritime L5 Swarm v2" job-application agent:  *)
(*   - the strict Confirmation Detector (check_strict_success) as a pure   *)
(*     function over page text, modal text and URL, on real strings;       *)
(*   - the in-page blocker classifiers (detectDeadDomain, ...);            *)
(*   - one worker's flow with its deadline and exception handlers;         *)
(*   - run_swarm's batching of workers (asyncio.gather per batch).         *)
(*   - the Field Matcher, the Self-Heal Store, the run state and report,   *)
(*     follow_popup, the route handler and the submit tiers of a cycle;    *)
(*   - slugify and the names of the files the workers of a run write.      *)
(* Strings are TLA+ strings; the module text is ASCII, so the em dash of   *)
(* the marketing-copy example is written "-" (no marker contains either).  *)
(***************************************************************************)
EXTENDS Naturals, Integers, Sequences, FiniteSets, TLC

VARIABLES
    page,           \* the active page: [url, body, modals, captcha]
    extra_markers,  \* state["extra_success_markers"] as loaded by load_state
    success,        \* the value last returned by check_strict_success
    checks,         \* history: how many times check_strict_success has run
    pc,             \* the worker's position: the await it is suspended at
    status,         \* worker's status
    detail,         \* worker's detail
    proof,          \* worker's proof ({} is EmptyProof)
    cycle,          \* the fill/submit loop's index
    context_open,   \* the worker's browsing context exists and is not closed
    exc,            \* str(exc) of the exception that ended flow(), "" if none
    ops,            \* history: the page interactions performed so far
    landing,        \* history: the page page.goto loaded
    classified,     \* history: the blocker reason flow() classified, "" if none
    ended,          \* history: how flow() ended (returned, timeout, exception)
    reinjected,     \* history: the handler's reinject(page) has run
    hcheck,         \* history: the handler's check verdict (none, ok, no)
    swallowed,      \* history: a guarded evaluation of the submit tiers lost
                    \* its execution context to a navigation
    batch_arg,      \* the --batch-size argument main() parsed
    batch_size,     \* run_swarm's batch_size
    sem,            \* the free slots of run_swarm's semaphore
    wpc,            \* per target: its worker task's position
    wstatus,        \* per target: the status in the outcome its worker returned
    bstart,         \* run_swarm's loop index i (1-based)
    run_pc,         \* run_swarm's position
    results,        \* run_swarm's results list: <<target, status>> entries
    form,           \* the controls of the document fillProfile/applyEeo act on
    form0,          \* history: the controls before the latest invocation
    fills,          \* history: what each apply_profile call returned
    profile,        \* the profile load_profile returned
    heal_state,     \* the persisted run state (runtime_state.json)
    heal_logs,      \* per attempt: the attempt's log file [exists, text]
    heal_hist,      \* history: [attempt, before, after] of each self_heal
    run_state,      \* the state dict run_swarm got from load_state()
    wseen,          \* per target: the hint lists its worker derived at entry
    summary,        \* the summary of the report run_swarm wrote, <<>> if none
    artifacts,      \* the files the latest check_strict_success call wrote
    files,          \* history: <<target, kind, path>> of each file a worker wrote
    run_attempt,    \* the attempt number run_swarm was called with
    ctx_pages,      \* ctx.pages: the pages of the context, in opening order
    page_ref,       \* the index in ctx_pages of the worker's active page
    pop_pc,         \* the popup handling's position
    pop_calls,      \* history: how many times follow_popup was called
    req,            \* the request the route handler was called with
    resolved,       \* history: the resolutions (abort, continue) of req
    sub_pc,         \* the submit block's position
    submit_responses, \* the responses _on_resp recorded
    sub_acts        \* history: the submit mechanisms attempted, in order

detVars == <<page, extra_markers, success, checks>>

flowVars == <<pc, status, detail, proof, cycle, context_open, exc, ops,
              landing, classified, ended, reinjected, hcheck, swallowed>>

swarmVars == <<batch_arg, batch_size, sem, wpc, wstatus, bstart, run_pc,
               results>>

formVars == <<form, form0, fills, profile>>

healVars == <<heal_state, heal_logs, heal_hist>>

runVars == <<run_state, wseen, summary>>

artVars == <<artifacts>>

fileVars == <<files, run_attempt>>

popVars == <<ctx_pages, page_ref, pop_pc, pop_calls>>

routeVars == <<req, resolved>>

subVars == <<sub_pc, submit_responses, sub_acts>>

auxVars == <<artVars, fileVars, popVars, routeVars, subVars>>

vars == <<detVars, flowVars, swarmVars, formVars, healVars, runVars, auxVars>>

-----------------------------------------------------------------------------
(* Strings: what str.lower(), String.trim(), "in" and the regexes compute.  *)

UPPER == "ABCDEFGHIJKLMNOPQRSTUVWXYZ"
LOWER == "abcdefghijklmnopqrstuvwxyz"

Char(s, i) == SubSeq(s, i, i)

UpperSet == {Char(UPPER, i) : i \in 1..26}

LowerMap ==
    [c \in UpperSet |-> Char(LOWER, CHOOSE i \in 1..26 : Char(UPPER, i) = c)]

LowerChar(c) == IF c \in UpperSet THEN LowerMap[c] ELSE c

RECURSIVE Lower(_)
Lower(s) ==
    IF s = "" THEN "" ELSE LowerChar(Char(s, 1)) \o Lower(SubSeq(s, 2, Len(s)))

IsWs(c) == c \in {" ", "\n", "\t"}

RECURSIVE TrimLeft(_)
TrimLeft(s) ==
    IF s # "" /\ IsWs(Char(s, 1)) THEN TrimLeft(SubSeq(s, 2, Len(s))) ELSE s

RECURSIVE TrimRight(_)
TrimRight(s) ==
    IF s # "" /\ IsWs(Char(s, Len(s)))
    THEN TrimRight(SubSeq(s, 1, Len(s) - 1)) ELSE s

Trim(s) == TrimRight(TrimLeft(s))

\* s.replace(/\s+/g, ' ')
RECURSIVE CollapseWs(_)
CollapseWs(s) ==
    IF s = "" THEN ""
    ELSE IF IsWs(Char(s, 1))
         THEN " " \o CollapseWs(TrimLeft(s))
         ELSE Char(s, 1) \o CollapseWs(SubSeq(s, 2, Len(s)))

\* Python's "m in t" and JS's t.includes(m)
Contains(t, m) ==
    \E i \in 1..(Len(t) + 1 - Len(m)) : SubSeq(t, i, i + Len(m) - 1) = m

\* the regex p1.*p2.*...pn searched in t
RECURSIVE ContainsSeq(_, _)
ContainsSeq(t, parts) ==
    IF parts = <<>> THEN TRUE
    ELSE LET p == Head(parts) IN
         \E i \in 1..(Len(t) + 1 - Len(p)) :
            /\ SubSeq(t, i, i + Len(p) - 1) = p
            /\ ContainsSeq(SubSeq(t, i + Len(p), Len(t)), Tail(parts))

SeqToSet(s) == {s[i] : i \in 1..Len(s)}

\* " ".join(xs)
RECURSIVE JoinSp(_)
JoinSp(xs) ==
    IF xs = <<>> THEN ""
    ELSE IF Len(xs) = 1 THEN xs[1]
    ELSE xs[1] \o " " \o JoinSp(Tail(xs))

-----------------------------------------------------------------------------
(* Marker lists.                                                            *)

STRICT_TEXT_MARKERS == <<
    "thank you for applying",
    "thanks for applying",
    "your application has been submitted",
    "your application was submitted",
    "application was submitted successfully",
    "we have received your application",
    "we received your application",
    "application number",
    "application complete",
    "thank you for your application",
    "application was received",
    "application has been received",
    "your application was successfully submitted",
    "application submitted successfully",
    "your application has been received",
    "thank you for submitting",
    "thanks for submitting",
    "you have successfully applied",
    "application confirmation",
    "thank you for your interest in",
    "your submission has been received" >>

STRICT_URL_MARKERS == <<
    "thank-you",
    "thankyou",
    "application-submitted",
    "application-received",
    "application-complete",
    "apply-confirmation",
    "application-confirmation" >>

\* COMPAT_MAP, its keys in sorted order
COMPAT_KEYS == <<"application received", "application submitted",
                 "confirmation", "thank you">>

COMPAT_MAP(key) ==
    CASE key = "thank you" ->
            {"thank you for applying", "thanks for applying",
             "thank you for your application", "thank you for submitting",
             "thank you for your interest in"}
      [] key = "application submitted" ->
            {"your application has been submitted",
             "your application was submitted",
             "application was submitted successfully",
             "application submitted successfully",
             "your application was successfully submitted"}
      [] key = "confirmation" -> {"application confirmation"}
      [] key = "application received" ->
            {"we have received your application", "we received your application",
             "application was received", "application has been received",
             "your application has been received",
             "your submission has been received"}
      [] OTHER -> {}

-----------------------------------------------------------------------------
(* The in-page helper's readers and classifiers (INJECT_HELPER_JS).         *)

norm(v) == Trim(CollapseWs(Lower(v)))

getVisibleText(p) == Lower(p.body)

\* the modal/dialog/toast scrape of check_strict_success: p.modals holds the
\* innerText of each element the selector list finds, in document order
RECURSIVE ModalFound(_)
ModalFound(ms) ==
    IF ms = <<>> THEN <<>>
    ELSE LET t == Trim(Head(ms)) IN
         (IF t # "" THEN <<Lower(t)>> ELSE <<>>) \o ModalFound(Tail(ms))

getModalText(p) == JoinSp(ModalFound(p.modals))

DEAD_DOMAINS == {"hugedomains.com", "godaddy.com/domainsearch", "sedo.com",
                 "afternic.com", "dan.com", "parkingcrew"}

detectDeadDomain(p) ==
    LET u == Lower(p.url)
        b == norm(p.body)
    IN \/ \E d \in DEAD_DOMAINS : Contains(u, d)
       \/ Contains(b, "this domain is for sale")
       \/ Contains(b, "this domain may be for sale")
       \/ Contains(b, "buy this domain")
       \/ Contains(b, "domain name for sale")
       \/ Contains(b, "domain is available")
       \/ ContainsSeq(b, <<"server error in", "application">>)
       \/ Contains(b, "runtime error")
       \/ Contains(b, "an application error occurred on the server")

detectLoginBlock(p) ==
    LET b == norm(p.body)
    IN \/ Contains(b, "already have an account")
       \/ Contains(b, "please log in to continue")
       \/ Contains(b, "sign in to continue")
       \/ Contains(b, "create an account to apply")

detectSmsBlock(p) ==
    LET b == norm(p.body)
    IN \/ ContainsSeq(b, <<"enter", "verification", "code">>)
       \/ ContainsSeq(b, <<"verify", "phone", "number">>)
       \/ ContainsSeq(b, <<"text", "code", "sent">>)
       \/ ContainsSeq(b, <<"sms", "verification">>)

\* widget/iframe presence is a DOM fact, not text: p.captcha
detectCaptcha(p) == p.captcha

-----------------------------------------------------------------------------
(* check_strict_success: the verdict and the proof bundle.                  *)

\* a marker test that asks for the whole text to be the marker
MarkerHit_whole(m, text) == text = Lower(m)

\* the marker test of the list comprehension: m.lower() in text
MarkerHit(m, text) == Contains(text, Lower(m))

\* a verdict that asks for both signals
Verdict_both(strict_hits, url_ok) == strict_hits # <<>> /\ url_ok

\* strict_hits or url_ok
Verdict(strict_hits, url_ok) == strict_hits # <<>> \/ url_ok

CombinedText(p) == getVisibleText(p) \o " " \o getModalText(p)

check_strict_success(p, extra) ==
    LET text        == CombinedText(p)
        url         == Lower(p.url)
        all_markers == STRICT_TEXT_MARKERS \o extra
        strict_hits == SelectSeq(all_markers, LAMBDA m : MarkerHit(m, text))
        url_ok      == \E i \in 1..Len(STRICT_URL_MARKERS) :
                          Contains(url, STRICT_URL_MARKERS[i])
        compat      == {k \in SeqToSet(COMPAT_KEYS) :
                          \/ \E i \in 1..Len(strict_hits) :
                                strict_hits[i] \in COMPAT_MAP(k)
                          \/ (url_ok /\ k = "confirmation")}
        compat_seq  == SelectSeq(COMPAT_KEYS, LAMBDA k : k \in compat)
    IN [ok    |-> Verdict(strict_hits, url_ok),
        proof |-> [final_url   |-> p.url,
                   text_hits   |-> strict_hits \o compat_seq,
                   url_match   |-> url_ok]]

-----------------------------------------------------------------------------
(* The detector on its own: every page reading of a bounded family, every   *)
(* run-state marker list of ExtraChoices, one call of check_strict_success. *)
(* A page here is the page as the two evaluations read it: safe_eval's      *)
(* default "" for a failed evaluation is the reading of an empty body or of *)
(* no modal container, both of which the family holds.                      *)

MaxParts == 2

BodyParts == {"Thank you for", " applying", " your interest", " in"}

RECURSIVE Concats(_)
Concats(n) ==
    IF n = 0 THEN {""}
    ELSE LET shorter == Concats(n - 1)
         IN shorter \cup {s \o f : s \in shorter, f \in BodyParts}

ScenarioBodies ==
    {"We have received your application. Application Number: 4471.",
     "Apply today - entry level deckhand positions open",
     "Thank you for your interest in joining our crew. Apply today.",
     "Thank you for your interest",
     "Welcome to our careers page",
     "THANK YOU FOR APPLYING!",
     "Thank you\nfor applying",
     "Thanks  for\tapplying"}

DetBodies == ScenarioBodies \cup Concats(MaxParts)

DetModals == {<<>>, <<"  Application Complete \n">>, <<" ", "applying">>}

DetUrls == {"https://example.com/apply",
            "https://example.com/careers",
            "https://example.com/thank-you",
            "https://example.com/jobs/THANKYOU"}

\* run-state marker lists: none, a phrase self_heal appends, a capitalised
\* phrase and an empty string (the state file is read as it is)
ExtraChoices == {<<>>, <<"thanks for applying">>, <<"Your Interest">>, <<"">>}

DetPages ==
    {[url |-> u, body |-> b, modals |-> m, captcha |-> FALSE] :
        u \in DetUrls, b \in DetBodies, m \in DetModals}

EmptyProof == [final_url |-> "", text_hits |-> <<>>, url_match |-> FALSE]

BlankPage == [url |-> "about:blank", body |-> "", modals |-> <<>>,
              captcha |-> FALSE]

NoSuccess == [ok |-> FALSE, proof |-> EmptyProof]

\* the worker's variables before any worker exists
FlowIdle ==
    /\ pc = "idle"
    /\ status = "INCOMPLETE"
    /\ detail = ""
    /\ proof = EmptyProof
    /\ cycle = 0
    /\ context_open = FALSE
    /\ exc = ""
    /\ ops = {}
    /\ landing = BlankPage
    /\ classified = ""
    /\ ended = ""
    /\ reinjected = FALSE
    /\ hcheck = "none"
    /\ swallowed = FALSE

\* run_swarm's variables when no run is under way
SwarmIdle ==
    /\ batch_arg = 0
    /\ batch_size = 0
    /\ sem = 0
    /\ wpc = <<>>
    /\ wstatus = <<>>
    /\ bstart = 0
    /\ run_pc = "idle"
    /\ results = <<>>

\* the Field Matcher's variables when no form is being filled
FormIdle ==
    /\ form = <<>>
    /\ form0 = <<>>
    /\ fills = <<>>
    /\ profile = <<>>

\* run_swarm's loaded state and report when no run is under way
RunIdle ==
    /\ run_state = <<>>
    /\ wseen = <<>>
    /\ summary = <<>>

\* the variables of the detector's files, of follow_popup, of the route
\* handler and of the submit block when none of them is under way
AuxIdle ==
    /\ artifacts = {}
    /\ files = {} /\ run_attempt = 0
    /\ ctx_pages = <<>>
    /\ page_ref = 0
    /\ pop_pc = "idle"
    /\ pop_calls = 0
    /\ req = <<>>
    /\ resolved = <<>>
    /\ sub_pc = "idle"
    /\ submit_responses = <<>>
    /\ sub_acts = <<>>

\* load_state()'s default
DefaultState ==
    [heal_count |-> 0, extra_apply_hints |-> <<>>,
     extra_submit_hints |-> <<>>, extra_success_markers |-> <<>>]

\* the Self-Heal Store's variables when self_heal is not run
HealIdle ==
    /\ heal_state = DefaultState
    /\ heal_logs = <<>>
    /\ heal_hist = <<>>

DetInit ==
    /\ page \in DetPages
    /\ extra_markers \in ExtraChoices
    /\ success = NoSuccess
    /\ checks = 0
    /\ FlowIdle
    /\ SwarmIdle
    /\ FormIdle
    /\ HealIdle
    /\ RunIdle
    /\ AuxIdle

\* files written whatever the verdict
Artifacts_always(ok, shotOk, srcOk, logOk) ==
    (IF shotOk THEN {"screenshot"} ELSE {})
      \cup (IF srcOk THEN {"source"} ELSE {})
      \cup (IF logOk THEN {"forensic"} ELSE {})

\* the files one check writes: the screenshot whatever the verdict, the page
\* source (when getPageSource gave one and the write succeeded) and the
\* forensic record (when its write succeeded) only if ok
Artifacts(ok, shotOk, srcOk, logOk) ==
    (IF shotOk THEN {"screenshot"} ELSE {})
      \cup (IF ok /\ srcOk THEN {"source"} ELSE {})
      \cup (IF ok /\ logOk THEN {"forensic"} ELSE {})

DetCheck ==
    /\ checks = 0
    /\ success' = check_strict_success(page, extra_markers)
    /\ checks' = 1
    /\ \E shotOk \in BOOLEAN, srcOk \in BOOLEAN, logOk \in BOOLEAN :
          artifacts' = Artifacts(success'.ok, shotOk, srcOk, logOk)
    /\ UNCHANGED <<page, extra_markers, flowVars, swarmVars, formVars,
                   healVars, runVars, fileVars, popVars, routeVars,
                   subVars>>

DetNext == DetCheck

DetSpec == DetInit /\ [][DetNext]_vars

-----------------------------------------------------------------------------
(* One worker: worker(browser, sem, target, profile, state, attempt).       *)
(* An action is the completion of the await the worker is suspended at,     *)
(* followed by the code up to the next await.  The pages are those of a     *)
(* site whose URLs name "callanmarine", so that the Callan Marine override  *)
(* is the site-specific branch that runs (the ADP, Viking, Moran and        *)
(* BambooHR branches are guarded by other domains).                         *)

CYCLES == 4

SITE == "https://www.callanmarineltd.com"

Pg(path, body, cap) ==
    [url |-> SITE \o path, body |-> body, modals |-> <<>>, captcha |-> cap]

CareersPage == Pg("/careers", "Apply today - entry level deckhand positions open", FALSE)
ParkedPage  == Pg("/careers", "This domain may be for sale", FALSE)
CaptchaPage == Pg("/careers", "Please verify you are human", TRUE)
SmsPage     == Pg("/careers", "Enter the verification code we sent you", FALSE)
LoginPage   == Pg("/careers", "Please log in to continue", FALSE)
FormPage    == Pg("/apply", "Application form. First name. Last name.", FALSE)
ReceivedPage == Pg("/apply", "We have received your application. Application Number: 4471.", FALSE)
ThanksPage  == Pg("/thank-you", "Welcome", FALSE)

\* what page.goto(url) can load
LandingPages == {CareersPage, ParkedPage, CaptchaPage, SmsPage, LoginPage}

\* where a listing, navigation, override or popup click can lead
ListingTargets == {FormPage}

\* where an application-entry click can lead
ApplyTargets == {FormPage, LoginPage}

\* where a submit can lead
SubmitTargets == {ReceivedPage, ThanksPage}

\* run_swarm hands every worker the run state load_state() read
FlowExtras == {<<>>, <<"">>}

\* the awaits of flow(): asyncio.wait_for can cancel flow() at any of them
FlowPcs == {"goto", "dead_check", "dead_shot", "captcha_check", "block_shot",
            "cookies", "job_link", "nav_hints", "popup_a", "ats",
            "apply_hints", "popup_b", "overrides", "modals", "login_check",
            "login_shot", "cycle_captcha", "captcha_shot", "fill", "upload",
            "fill_more", "submit", "cycle_check", "reapply", "final_check",
            "final_diag"}

ClickOps == {"cookie_click", "listing_click", "nav_click", "apply_click",
             "override_click", "modal_click", "step_click", "submit"}

PyBool(b) == IF b THEN "True" ELSE "False"

\* safe_eval(page, js, default): the value, or the default when page.evaluate
\* fails and fails again after the re-injection
safe_eval(evalOk, value, default) == IF evalOk THEN value ELSE default

\* the page as check_strict_success's two evaluations read it
ReadPage(p, bodyOk, modalOk) ==
    [p EXCEPT !.body = safe_eval(bodyOk, p.body, ""),
              !.modals = safe_eval(modalOk, p.modals, <<>>)]

BlockedProof(p) == [final_url |-> p.url, text_hits |-> <<>>, url_match |-> FALSE]

FlowInit ==
    /\ page = BlankPage
    /\ extra_markers \in FlowExtras
    /\ success = NoSuccess
    /\ checks = 0
    /\ pc = "start"
    /\ status = "INCOMPLETE"
    /\ detail = ""
    /\ proof = EmptyProof
    /\ cycle = 0
    /\ context_open = FALSE
    /\ exc = ""
    /\ ops = {}
    /\ landing = BlankPage
    /\ classified = ""
    /\ ended = ""
    /\ reinjected = FALSE
    /\ hcheck = "none"
    /\ swallowed = FALSE
    /\ SwarmIdle
    /\ FormIdle
    /\ HealIdle
    /\ RunIdle
    /\ AuxIdle

\* async with sem: context = await browser.new_context(...)
NewContext ==
    /\ pc = "start"
    /\ \E ok \in BOOLEAN :
          IF ok THEN pc' = "new_page" /\ context_open' = TRUE
                ELSE pc' = "raised" /\ UNCHANGED context_open
    /\ UNCHANGED <<swarmVars, formVars, healVars, runVars, auxVars, swallowed, detVars, status, detail, proof, cycle, exc, ops, landing,
                   classified, ended, reinjected, hcheck>>

\* page = await context.new_page(); await page.route(...);
\* await page.add_init_script(...): outside any try
PageSetup ==
    /\ pc = "new_page"
    /\ \E ok \in BOOLEAN : pc' = IF ok THEN "goto" ELSE "raised"
    /\ UNCHANGED <<swarmVars, formVars, healVars, runVars, auxVars, swallowed, detVars, status, detail, proof, cycle, context_open, exc,
                   ops, landing, classified, ended, reinjected, hcheck>>

\* a variant in which the timeout clause takes every exception
Raise_timeout(kind, msg) ==
    /\ ended' = kind
    /\ exc' = msg
    /\ pc' = "t_reinject"

\* an exception leaves flow(): which except clause of worker takes it
Raise(kind, msg) ==
    /\ ended' = kind
    /\ exc' = msg
    /\ pc' = IF kind = "timeout" THEN "t_reinject" ELSE "e_reinject"

\* await page.goto(url, ...); js_wait; reinject
Goto ==
    /\ pc = "goto"
    /\ \/ /\ page' \in LandingPages
          /\ landing' = page'
          /\ pc' = "dead_check"
          /\ UNCHANGED <<ended, exc>>
       \/ /\ page' \in {BlankPage, CareersPage}
          /\ Raise("timeout", "Timeout 30000ms exceeded")
          /\ UNCHANGED landing
       \/ /\ Raise("exception", "net::ERR_NAME_NOT_RESOLVED")
          /\ UNCHANGED <<page, landing>>
    /\ UNCHANGED <<swarmVars, formVars, healVars, runVars, auxVars, swallowed, extra_markers, success, checks, status, detail, proof,
                   cycle, context_open, ops, classified, reinjected, hcheck>>

\* status = "BLOCKED"; detail = ...; then await page.screenshot(...)
Classify(reason, text, shot) ==
    /\ status' = "BLOCKED"
    /\ detail' = text
    /\ classified' = reason
    /\ pc' = shot

\* dead = await safe_eval(page, detectDeadDomain, False)
DeadCheck ==
    /\ pc = "dead_check"
    /\ \E evalOk \in BOOLEAN :
          IF safe_eval(evalOk, detectDeadDomain(page), FALSE)
          THEN Classify("dead_domain", "Blocked - External: dead_domain",
                        "dead_shot")
          ELSE pc' = "captcha_check" /\ UNCHANGED <<status, detail, classified>>
    /\ UNCHANGED <<swarmVars, formVars, healVars, runVars, auxVars, swallowed, detVars, proof, cycle, context_open, exc, ops, landing,
                   ended, reinjected, hcheck>>

\* captcha = await safe_eval(...); sms = await safe_eval(...)
CaptchaSmsCheck ==
    /\ pc = "captcha_check"
    /\ \E capOk \in BOOLEAN, smsOk \in BOOLEAN :
          LET captcha == safe_eval(capOk, detectCaptcha(page), FALSE)
              sms     == safe_eval(smsOk, detectSmsBlock(page), FALSE)
          IN IF captcha \/ sms
             THEN Classify("captcha_sms",
                           "Blocked - External: captcha=" \o PyBool(captcha)
                               \o ", sms=" \o PyBool(sms),
                           "block_shot")
             ELSE pc' = "cookies" /\ UNCHANGED <<status, detail, classified>>
    /\ UNCHANGED <<swarmVars, formVars, healVars, runVars, auxVars, swallowed, detVars, proof, cycle, context_open, exc, ops, landing,
                   ended, reinjected, hcheck>>

\* the screenshot of a blocked page (its failure is swallowed); proof = {...};
\* return
BlockedShot ==
    /\ pc \in {"dead_shot", "block_shot", "login_shot", "captcha_shot"}
    /\ proof' = BlockedProof(page)
    /\ ended' = "returned"
    /\ pc' = "flow_done"
    /\ UNCHANGED <<swarmVars, formVars, healVars, runVars, auxVars, swallowed, detVars, status, detail, cycle, context_open, exc, ops,
                   landing, classified, reinjected, hcheck>>

\* an in-page click by hint text or selector: it may find no element; a click
\* may replace the document
Click(op, targets) ==
    \E hit \in BOOLEAN :
        IF hit
        THEN ops' = ops \cup {op} /\ page' \in targets \cup {page}
        ELSE UNCHANGED <<ops, page>>

\* await click_hints(page, COOKIE_HINTS)
Cookies ==
    /\ pc = "cookies"
    /\ Click("cookie_click", {})
    /\ pc' = "job_link"
    /\ UNCHANGED <<swarmVars, formVars, healVars, runVars, auxVars, swallowed, extra_markers, success, checks, status, detail, proof,
                   cycle, context_open, exc, landing, classified, ended,
                   reinjected, hcheck>>

\* job_clicked = await safe_eval(page, findAndClickJobLink(JOB_KEYWORDS), "")
JobLink ==
    /\ pc = "job_link"
    /\ \E hit \in BOOLEAN :
          IF hit
          THEN /\ ops' = ops \cup {"listing_click"}
               /\ page' \in ListingTargets \cup {page}
               /\ pc' = "popup_a"
          ELSE pc' = "nav_hints" /\ UNCHANGED <<ops, page>>
    /\ UNCHANGED <<swarmVars, formVars, healVars, runVars, auxVars, swallowed, extra_markers, success, checks, status, detail, proof,
                   cycle, context_open, exc, landing, classified, ended,
                   reinjected, hcheck>>

\* await click_hints(page, NAV_HINTS)
NavHints ==
    /\ pc = "nav_hints"
    /\ Click("nav_click", ListingTargets)
    /\ pc' = "popup_a"
    /\ UNCHANGED <<swarmVars, formVars, healVars, runVars, auxVars, swallowed, extra_markers, success, checks, status, detail, proof,
                   cycle, context_open, exc, landing, classified, ended,
                   reinjected, hcheck>>

\* await handle_navigation(page); page = await follow_popup(page, context):
\* no new page, a social-media popup (closed), a popup adopted, or a popup
\* whose route/init-script registration raises
FollowPopup ==
    /\ pc \in {"popup_a", "popup_b"}
    /\ \/ /\ pc' = IF pc = "popup_a" THEN "ats" ELSE "overrides"
          /\ UNCHANGED <<page, ended, exc>>
       \/ /\ ops \cap ClickOps # {}
          /\ page' \in ListingTargets
          /\ pc' = IF pc = "popup_a" THEN "ats" ELSE "overrides"
          /\ UNCHANGED <<ended, exc>>
       \/ /\ ops \cap ClickOps # {}
          /\ Raise("exception", "Target page, context or browser has been closed")
          /\ UNCHANGED page
    /\ UNCHANGED <<swarmVars, formVars, healVars, runVars, auxVars, swallowed, extra_markers, success, checks, status, detail, proof,
                   cycle, context_open, ops, landing, classified, reinjected,
                   hcheck>>

\* ats_clicked = await safe_eval(page, clickApplyATS(), "")
Ats ==
    /\ pc = "ats"
    /\ \E hit \in BOOLEAN :
          IF hit
          THEN /\ ops' = ops \cup {"apply_click"}
               /\ page' \in ApplyTargets \cup {page}
               /\ pc' = "popup_b"
          ELSE pc' = "apply_hints" /\ UNCHANGED <<ops, page>>
    /\ UNCHANGED <<swarmVars, formVars, healVars, runVars, auxVars, swallowed, extra_markers, success, checks, status, detail, proof,
                   cycle, context_open, exc, landing, classified, ended,
                   reinjected, hcheck>>

\* await click_hints(page, extra_apply)
ApplyHints ==
    /\ pc = "apply_hints"
    /\ Click("apply_click", ApplyTargets)
    /\ pc' = "popup_b"
    /\ UNCHANGED <<swarmVars, formVars, healVars, runVars, auxVars, swallowed, extra_markers, success, checks, status, detail, proof,
                   cycle, context_open, exc, landing, classified, ended,
                   reinjected, hcheck>>

\* the site-specific branches, each in a try: on a callanmarine URL the
\* "APPLY NOW" locator click
Overrides ==
    /\ pc = "overrides"
    /\ IF Contains(Lower(page.url), "callanmarine")
       THEN Click("override_click", ListingTargets)
       ELSE UNCHANGED <<ops, page>>
    /\ pc' = "modals"
    /\ UNCHANGED <<swarmVars, formVars, healVars, runVars, auxVars, swallowed, extra_markers, success, checks, status, detail, proof,
                   cycle, context_open, exc, landing, classified, ended,
                   reinjected, hcheck>>

\* a variant in which the manual-entry step already fills the form
Modals_fill ==
    /\ pc = "modals"
    /\ ops' = ops \cup {"modal_click", "fill"}
    /\ pc' = "login_check"
    /\ UNCHANGED <<swarmVars, formVars, healVars, runVars, auxVars, swallowed, detVars, status, detail, proof, cycle,
                   context_open, exc, landing, classified, ended, reinjected,
                   hcheck>>

\* the modal-dismiss, "Type it in myself", manual-entry and NEXT clicks, each
\* in a try
Modals ==
    /\ pc = "modals"
    /\ Click("modal_click", {})
    /\ pc' = "login_check"
    /\ UNCHANGED <<swarmVars, formVars, healVars, runVars, auxVars, swallowed, extra_markers, success, checks, status, detail, proof,
                   cycle, context_open, exc, landing, classified, ended,
                   reinjected, hcheck>>

\* login_block = await safe_eval(page, detectLoginBlock, False)
LoginCheck ==
    /\ pc = "login_check"
    /\ \E evalOk \in BOOLEAN :
          IF safe_eval(evalOk, detectLoginBlock(page), FALSE)
          THEN Classify("login_required", "Blocked - External: login_required",
                        "login_shot")
          ELSE pc' = "cycle_captcha" /\ UNCHANGED <<status, detail, classified>>
    /\ UNCHANGED <<swarmVars, formVars, healVars, runVars, auxVars, swallowed, detVars, proof, cycle, context_open, exc, ops, landing,
                   ended, reinjected, hcheck>>

\* for cycle in range(4): cap_now = await safe_eval(page, detectCaptcha, False)
CycleCaptcha ==
    /\ pc = "cycle_captcha"
    /\ \E evalOk \in BOOLEAN :
          IF safe_eval(evalOk, detectCaptcha(page), FALSE)
          THEN Classify("captcha_on_form", "Blocked - External: captcha_on_form",
                        "captcha_shot")
          ELSE pc' = "fill" /\ UNCHANGED <<status, detail, classified>>
    /\ UNCHANGED <<swarmVars, formVars, healVars, runVars, auxVars, swallowed, detVars, proof, cycle, context_open, exc, ops, landing,
                   ended, reinjected, hcheck>>

\* f, e = await apply_profile(page, profile): fillProfile and applyEeo run in
\* the page
Fill ==
    /\ pc = "fill"
    /\ ops' = ops \cup {"fill", "eeo"}
    /\ pc' = "upload"
    /\ UNCHANGED <<swarmVars, formVars, healVars, runVars, auxVars, swallowed, detVars, status, detail, proof, cycle, context_open, exc,
                   landing, classified, ended, reinjected, hcheck>>

\* await upload_resume(page, resume_path): no resume file or no file input,
\* files set, or inputs.count() raising (it is outside the try)
Upload ==
    /\ pc = "upload"
    /\ \/ pc' = "fill_more" /\ UNCHANGED <<ops, ended, exc>>
       \/ /\ ops' = ops \cup {"upload"}
          /\ pc' = "fill_more"
          /\ UNCHANGED <<ended, exc>>
       \/ /\ Raise("exception", "Execution context was destroyed, most likely because of a navigation")
          /\ UNCHANGED ops
    /\ UNCHANGED <<swarmVars, formVars, healVars, runVars, auxVars, swallowed, detVars, status, detail, proof, cycle, context_open,
                   landing, classified, reinjected, hcheck>>

\* the second apply_profile pass, then the multi-step "Continue/NEXT/Submit"
\* click on a URL containing "careers" (in a try), then the honeypot clearing
FillMore ==
    /\ pc = "fill_more"
    /\ IF Contains(Lower(page.url), "careers")
       THEN Click("step_click", {})
       ELSE UNCHANGED <<ops, page>>
    /\ pc' = "submit"
    /\ UNCHANGED <<swarmVars, formVars, healVars, runVars, auxVars, swallowed, extra_markers, success, checks, status, detail, proof,
                   cycle, context_open, exc, landing, classified, ended,
                   reinjected, hcheck>>

\* the three submit tiers and the waits after them: the native click in a
\* try, requestSubmit and the hint click through safe_eval, which returns its
\* default when the navigation the submit started destroys the context
Submit ==
    /\ pc = "submit"
    /\ Click("submit", SubmitTargets)
    /\ swallowed' \in (IF page' # page THEN {TRUE} ELSE {}) \cup {swallowed}
    /\ pc' = "cycle_check"
    /\ UNCHANGED <<swarmVars, formVars, healVars, runVars, auxVars, extra_markers, success, checks, status, detail, proof,
                   cycle, context_open, exc, landing, classified, ended,
                   reinjected, hcheck>>

\* every page of the site, as the detector's evaluations can read it
FlowPages ==
    {BlankPage} \cup LandingPages \cup ListingTargets \cup ApplyTargets
        \cup SubmitTargets

Readings ==
    {ReadPage(p, bodyOk, modalOk) :
        p \in FlowPages, bodyOk \in BOOLEAN, modalOk \in BOOLEAN}

\* check_strict_success tabulated over the readings and the run states
CheckTable ==
    {<<r, e, check_strict_success(r, e)>> : r \in Readings, e \in FlowExtras}

Checked(r, e) == (CHOOSE t \in CheckTable : t[1] = r /\ t[2] = e)[3]

\* success = await check_strict_success(page, slug, attempt, extra_markers)
RunCheck ==
    /\ \E bodyOk \in BOOLEAN, modalOk \in BOOLEAN :
          success' = Checked(ReadPage(page, bodyOk, modalOk), extra_markers)
    /\ checks' = checks + 1

\* a cycle that ends without asking the detector
CycleCheck_skip ==
    /\ pc = "cycle_check"
    /\ pc' = "reapply"
    /\ UNCHANGED <<proof, status, detail, ended, success, checks>>
    /\ UNCHANGED <<swarmVars, formVars, healVars, runVars, auxVars, swallowed, page, extra_markers, cycle, context_open, exc, ops, landing,
                   classified, reinjected, hcheck>>

\* the check that ends a cycle: COMPLETE and return when it confirms
CycleCheck ==
    /\ pc = "cycle_check"
    /\ RunCheck
    /\ IF success'.ok
       THEN /\ proof' = success'.proof
            /\ status' = "COMPLETE"
            /\ detail' = "strict_confirmation_verified"
            /\ ended' = "returned"
            /\ pc' = "flow_done"
       ELSE pc' = "reapply" /\ UNCHANGED <<proof, status, detail, ended>>
    /\ UNCHANGED <<swarmVars, formVars, healVars, runVars, auxVars, swallowed, page, extra_markers, cycle, context_open, exc, ops, landing,
                   classified, reinjected, hcheck>>

\* a loop whose next cycle starts again at the application entry
Reapply_entry ==
    /\ pc = "reapply"
    /\ Click("apply_click", ApplyTargets)
    /\ cycle' = cycle + 1
    /\ pc' = IF cycle + 1 < CYCLES THEN "ats" ELSE "final_check"
    /\ UNCHANGED <<swarmVars, formVars, healVars, runVars, auxVars, swallowed, extra_markers, success, checks, status, detail, proof,
                   context_open, exc, landing, classified, ended, reinjected,
                   hcheck>>

\* await click_hints(page, extra_apply); js_wait; reinject; next cycle
Reapply ==
    /\ pc = "reapply"
    /\ Click("apply_click", ApplyTargets)
    /\ cycle' = cycle + 1
    /\ pc' = IF cycle + 1 < CYCLES THEN "cycle_captcha" ELSE "final_check"
    /\ UNCHANGED <<swarmVars, formVars, healVars, runVars, auxVars, swallowed, extra_markers, success, checks, status, detail, proof,
                   context_open, exc, landing, classified, ended, reinjected,
                   hcheck>>

\* PHASE 4: success = await check_strict_success(...); proof = success["proof"]
FinalCheck ==
    /\ pc = "final_check"
    /\ RunCheck
    /\ proof' = success'.proof
    /\ pc' = "final_diag"
    /\ UNCHANGED <<swarmVars, formVars, healVars, runVars, auxVars, swallowed, page, extra_markers, status, detail, cycle, context_open,
                   exc, ops, landing, classified, ended, reinjected, hcheck>>

\* a variant that gives up whatever the final check returned
FinalDiag_incomplete ==
    /\ pc = "final_diag"
    /\ status' = "INCOMPLETE"
    /\ detail' = "no_strict_confirmation"
    /\ ended' = "returned"
    /\ pc' = "flow_done"
    /\ UNCHANGED <<swarmVars, formVars, healVars, runVars, auxVars, swallowed, detVars, proof, cycle, context_open,
                   exc, ops, landing, classified, reinjected, hcheck>>

\* the diagnostic getPageSource evaluation, then the final status
FinalDiag ==
    /\ pc = "final_diag"
    /\ IF success.ok
       THEN status' = "COMPLETE" /\ detail' = "strict_confirmation_verified"
       ELSE status' = "INCOMPLETE" /\ detail' = "no_strict_confirmation"
    /\ ended' = "returned"
    /\ pc' = "flow_done"
    /\ UNCHANGED <<swarmVars, formVars, healVars, runVars, auxVars, swallowed, detVars, proof, cycle, context_open, exc, ops, landing,
                   classified, reinjected, hcheck>>

\* asyncio.wait_for(flow(), timeout=TTL_SECONDS) expires: flow() is cancelled
\* at the await it is suspended at
Deadline ==
    /\ pc \in FlowPcs
    /\ Raise("timeout", "")
    /\ UNCHANGED <<swarmVars, formVars, healVars, runVars, auxVars, swallowed, detVars, status, detail, proof, cycle, context_open, ops,
                   landing, classified, reinjected, hcheck>>

\* except ...: (wait_for_load_state when the message names a navigation;)
\* await reinject(page).  A navigation a submit started may land meanwhile.
HandlerReinject ==
    /\ pc \in {"t_reinject", "e_reinject"}
    /\ reinjected' = TRUE
    /\ page' \in (IF "submit" \in ops THEN SubmitTargets ELSE {}) \cup {page}
    /\ pc' = IF pc = "t_reinject" THEN "t_check" ELSE "e_check"
    /\ UNCHANGED <<swarmVars, formVars, healVars, runVars, auxVars, swallowed, extra_markers, success, checks, status, detail, proof,
                   cycle, context_open, exc, ops, landing, classified, ended,
                   hcheck>>

\* a variant that keeps the status flow() had reached
HandlerNoConfirm_keep(timed_out) ==
    /\ UNCHANGED status
    /\ detail' = IF timed_out THEN "timeout_120s_no_confirmation"
                              ELSE "exception:Error:" \o exc
    /\ proof' = BlockedProof(page)

\* the handler's outcome when its check does not confirm
HandlerNoConfirm(timed_out) ==
    /\ status' = "INCOMPLETE"
    /\ detail' = IF timed_out THEN "timeout_120s_no_confirmation"
                              ELSE "exception:Error:" \o exc
    /\ proof' = BlockedProof(page)

\* a variant whose unconfirmed branch leaves the bundle flow() had stored
HandlerCheck_stored ==
    /\ pc \in {"t_check", "e_check"}
    /\ RunCheck
    /\ hcheck' = IF success'.ok THEN "ok" ELSE "no"
    /\ IF success'.ok
       THEN /\ status' = "COMPLETE"
            /\ detail' = IF pc = "t_check"
                         THEN "timeout_with_strict_confirmation"
                         ELSE "post_navigation_strict_confirmation"
            /\ proof' = success'.proof
       ELSE /\ status' = "INCOMPLETE"
            /\ detail' = IF pc = "t_check" THEN "timeout_120s_no_confirmation"
                                           ELSE "exception:Error:" \o exc
            /\ UNCHANGED proof
    /\ pc' = "flow_done"
    /\ UNCHANGED <<swarmVars, formVars, healVars, runVars, auxVars, swallowed, page, extra_markers, cycle, context_open, exc, ops, landing,
                   classified, ended, reinjected>>

\* success = await check_strict_success(...) in the except clause, and the
\* outcome it fixes
HandlerCheck ==
    /\ pc \in {"t_check", "e_check"}
    /\ RunCheck
    /\ hcheck' = IF success'.ok THEN "ok" ELSE "no"
    /\ IF success'.ok
       THEN /\ status' = "COMPLETE"
            /\ detail' = IF pc = "t_check"
                         THEN "timeout_with_strict_confirmation"
                         ELSE "post_navigation_strict_confirmation"
            /\ proof' = success'.proof
       ELSE HandlerNoConfirm(pc = "t_check")
    /\ pc' = "flow_done"
    /\ UNCHANGED <<swarmVars, formVars, healVars, runVars, auxVars, swallowed, page, extra_markers, cycle, context_open, exc, ops, landing,
                   classified, ended, reinjected>>

\* finally: await context.close(); return {...}
CloseAndReturn ==
    /\ pc = "flow_done"
    /\ context_open' = FALSE
    /\ pc' = "returned"
    /\ UNCHANGED <<swarmVars, formVars, healVars, runVars, auxVars, swallowed, detVars, status, detail, proof, cycle, exc, ops, landing,
                   classified, ended, reinjected, hcheck>>

Next ==
    \/ NewContext \/ PageSetup \/ Goto \/ DeadCheck \/ CaptchaSmsCheck
    \/ BlockedShot \/ Cookies \/ JobLink \/ NavHints \/ FollowPopup \/ Ats
    \/ ApplyHints \/ Overrides \/ Modals \/ LoginCheck \/ CycleCaptcha
    \/ Fill \/ Upload \/ FillMore \/ Submit \/ CycleCheck \/ Reapply
    \/ FinalCheck \/ FinalDiag \/ Deadline \/ HandlerReinject \/ HandlerCheck
    \/ CloseAndReturn

Spec == FlowInit /\ [][Next]_vars

-----------------------------------------------------------------------------
(* The in-page Field Matcher (fillProfile, applyEeo) and apply_profile.     *)
(* A control is a record: tag and type, the attributes desc() reads (name,  *)
(* placeholder, the text of its label and of its fieldset's legend), its    *)
(* state (value, checked, sel: the 1-based index of a select's selected     *)
(* option) and what setVal inspects (disabled, readOnly, tabIndex,          *)
(* ariaHidden: it sits under an aria-hidden="true" ancestor).               *)

\* desc(el): the attributes joined by ' ' (an absent one joins as ''), norm'ed
desc(el) ==
    norm(JoinSp(<<el.name, "", el.placeholder, "", "", "">>
                \o (IF el.label # "" THEN <<el.label>> ELSE <<>>)
                \o (IF el.legend # "" THEN <<el.legend>> ELSE <<>>)))

Ctl(tag, type, name, label, legend) ==
    [tag |-> tag, type |-> type, name |-> name, placeholder |-> "",
     label |-> label, legend |-> legend, value |-> "", checked |-> FALSE,
     disabled |-> FALSE, readOnly |-> FALSE, tabIndex |-> 0,
     ariaHidden |-> FALSE, options |-> <<>>, sel |-> 0]

Opt(text, value) == [text |-> text, value |-> value]

EmailInput == Ctl("INPUT", "email", "email", "Email address", "")

LockedPhone ==
    [Ctl("INPUT", "tel", "phone", "Phone", "") EXCEPT
        !.value = "555-0100", !.readOnly = TRUE]

AuthQuestion == "Authorized to work?"

TrapYesRadio ==
    [Ctl("INPUT", "radio", "work_auth", "Yes", AuthQuestion) EXCEPT
        !.value = "yes", !.tabIndex = -1]

StateSelect ==
    [Ctl("SELECT", "", "state", "State", "") EXCEPT
        !.options = <<Opt("Select", "0"), Opt("LA", "LA"), Opt("TX", "TX")>>,
        !.sel = 1]

HiddenRegionSelect ==
    [Ctl("SELECT", "", "region", "", "") EXCEPT
        !.options = <<Opt("", ""), Opt("Texas", "TX")>>,
        !.sel = 1, !.ariaHidden = TRUE]

RaceSelect ==
    [Ctl("SELECT", "", "race", "Race / Ethnicity", "") EXCEPT
        !.options = <<Opt("Decline to answer", "decline"),
                      Opt("Black or African American", "black")>>,
        !.sel = 1]

TrapDisabilityBox ==
    [Ctl("INPUT", "checkbox", "disability", "I do not wish to answer", "")
     EXCEPT !.value = "decline", !.tabIndex = -1]

\* a select whose first option is a placeholder without a value
PaySelect ==
    [Ctl("SELECT", "", "pay_rate", "Pay rate", "") EXCEPT
        !.options = <<Opt("--Select--", ""), Opt("Hourly", "hourly"),
                      Opt("Salaried", "salaried")>>,
        !.sel = 2]

\* the controls forms are made of, in document order
ControlPool ==
    <<EmailInput, LockedPhone, TrapYesRadio, StateSelect, HiddenRegionSelect,
      RaceSelect, TrapDisabilityBox, PaySelect>>

\* desc() reads only these attributes of a control
DescKey(el) == <<el.name, el.placeholder, el.label, el.legend>>

DescKeys == {DescKey(ControlPool[i]) : i \in 1..Len(ControlPool)}

PoolControl(d) ==
    ControlPool[CHOOSE i \in 1..Len(ControlPool) : DescKey(ControlPool[i]) = d]

\* desc(el), computed once for each control of the pool
DescTable == [d \in DescKeys |-> desc(PoolControl(d))]

Desc(el) == DescTable[DescKey(el)]

\* the value a select reports: that of its selected option
SelValue(el) ==
    IF el.sel \in 1..Len(el.options) THEN el.options[el.sel].value ELSE ""

\* Array.prototype.find over the indices that satisfy its test: the first
\* of them, 0 when there is none
FirstOf(I) == IF I = {} THEN 0 ELSE CHOOSE i \in I : \A j \in I : i <= j

\* el.value = v on a select: the first option with that value gets selected
SelectValue(el, v) ==
    [el EXCEPT !.sel =
        FirstOf({i \in 1..Len(el.options) : el.options[i].value = v})]

Failed(el) == [ok |-> FALSE, el |-> el]

\* setVal(el, value): whether it wrote, and the control afterwards
setVal(el, value) ==
    IF value = "" THEN Failed(el)
    ELSE IF el.disabled \/ el.readOnly THEN Failed(el)
    ELSE IF el.tabIndex = -1 THEN Failed(el)
    ELSE IF el.ariaHidden THEN Failed(el)
    ELSE IF norm(el.type) \in {"hidden", "file"} THEN Failed(el)
    ELSE IF Lower(el.tag) = "select"
    THEN LET want == norm(value)
             opts  == el.options
             exact == FirstOf({i \in 1..Len(opts) :
                         norm(opts[i].text) = want \/ norm(opts[i].value) = want})
             part  == FirstOf({i \in 1..Len(opts) :
                         \/ Contains(norm(opts[i].text), want)
                         \/ Contains(norm(opts[i].value), want)})
             rev   == FirstOf({i \in 1..Len(opts) :
                         \/ Contains(want, norm(opts[i].text))
                         \/ Contains(want, norm(opts[i].value))})
             hit   == IF exact # 0 THEN exact
                      ELSE IF part # 0 THEN part ELSE rev
         IN  IF hit = 0 THEN Failed(el)
             ELSE [ok |-> TRUE, el |-> SelectValue(el, el.options[hit].value)]
    ELSE IF norm(el.type) \in {"radio", "checkbox"} THEN Failed(el)
    ELSE [ok |-> TRUE, el |-> [el EXCEPT !.value = value]]

IsChoice(el, types) == Lower(el.tag) = "input" /\ norm(el.type) \in types

\* n.click() on the i-th control: nothing on a disabled control; a radio
\* becomes checked and the radios of its group (same name) unchecked; a
\* checkbox toggles
ClickCtl(f, i) ==
    IF f[i].disabled THEN f
    ELSE IF norm(f[i].type) = "radio"
    THEN [j \in 1..Len(f) |->
            IF j = i THEN [f[j] EXCEPT !.checked = TRUE]
            ELSE IF IsChoice(f[j], {"radio"}) /\ f[j].name = f[i].name
                 THEN [f[j] EXCEPT !.checked = FALSE]
                 ELSE f[j]]
    ELSE [f EXCEPT ![i].checked = ~f[i].checked]

AnyHint(text, hints) == \E h \in SeqToSet(hints) : Contains(text, norm(h))

\* clickChoice(qHints, oHints): whether it clicked, and the form afterwards
clickChoice(f, qHints, oHints) ==
    LET hit == CHOOSE h \in 0..Len(f) :
            /\ h # 0 =>
                 /\ IsChoice(f[h], {"radio", "checkbox"})
                 /\ AnyHint(Desc(f[h]), qHints)
                 /\ AnyHint(norm(f[h].label \o " " \o f[h].value), oHints)
            /\ \A j \in 1..Len(f) :
                 (/\ IsChoice(f[j], {"radio", "checkbox"})
                  /\ AnyHint(Desc(f[j]), qHints)
                  /\ AnyHint(norm(f[j].label \o " " \o f[j].value), oHints))
                 => (h # 0 /\ h <= j)
    IN  IF hit = 0 THEN [ok |-> FALSE, form |-> f]
        ELSE [ok |-> TRUE, form |-> ClickCtl(f, hit)]

\* fillProfile's alias map; a key it does not list is its own alias
AliasMap(k) ==
    CASE k = "first_name" ->
           <<"first name", "firstname", "given name", "fname", "first">>
      [] k = "last_name" ->
           <<"last name", "lastname", "surname", "family name", "lname",
             "last">>
      [] k = "full_name" -> <<"full name", "your name", "applicant name">>
      [] k = "email" -> <<"email", "e-mail", "email address">>
      [] k = "phone" ->
           <<"phone", "mobile", "telephone", "contact number",
             "phone number", "cell">>
      [] k = "address_line1" ->
           <<"address", "street", "street address", "address line">>
      [] k = "city" -> <<"city", "town">>
      [] k = "state" -> <<"state", "province", "region">>
      [] k = "zip" -> <<"zip", "postal", "zip code", "postal code">>
      [] k = "date_available" ->
           <<"date available", "available date", "start date",
             "availability", "when can you start">>
      [] k = "desired_pay" ->
           <<"desired pay", "salary", "pay", "compensation", "wage",
             "desired salary", "expected salary", "pay rate", "hourly rate">>
      [] k = "referred_by" ->
           <<"who referred", "referred", "referral", "how did you hear",
             "source", "hear about">>
      [] k = "career_goals" ->
           <<"what are you looking for", "career goal",
             "looking for in a career", "career interest",
             "career objective">>
      [] k = "work_environment" ->
           <<"ideal work environment", "work environment",
             "describe your ideal", "work setting", "preferred environment">>
      [] k = "pitch" ->
           <<"cover letter", "summary", "message", "why", "about you",
             "introduction", "comments", "additional comments", "comment",
             "notes", "tell us">>
      [] k = "sea_days_note" ->
           <<"sea days", "offshore", "additional information", "experience",
             "qualifications">>
      [] OTHER -> <<k>>

PayloadKeys ==
    {"first_name", "last_name", "full_name", "email", "phone",
     "address_line1", "city", "state", "zip", "pitch", "sea_days_note",
     "date_available", "desired_pay", "referred_by", "career_goals",
     "work_environment"}

\* aliases.some(a => d.includes(norm(a))), computed once for each control of
\* the pool and each payload key
AliasHits ==
    [d \in DescKeys |->
        {k \in PayloadKeys : AnyHint(DescTable[d], AliasMap(k))}]

AliasHit(el, k) == k \in AliasHits[DescKey(el)]

\* the alias pass: for each payload entry, in order, every field whose
\* description contains one of the entry's aliases is written through setVal;
\* n runs over the (entry, field) pairs in the order of the two loops
RECURSIVE AliasPass(_, _, _, _)
AliasPass(p, f, n, filled) ==
    IF n > Len(p) * Len(f) THEN [form |-> f, filled |-> filled]
    ELSE LET k  == ((n - 1) \div Len(f)) + 1
             i  == ((n - 1) % Len(f)) + 1
             r  == IF AliasHit(f[i], p[k][1])
                   THEN setVal(f[i], p[k][2]) ELSE Failed(f[i])
         IN  AliasPass(p, [f EXCEPT ![i] = r.el], n + 1,
                       filled + (IF r.ok THEN 1 ELSE 0))

yesQuestions ==
    <<"are you able to work", "authorized to work", "legally authorized",
      "eligible to work", "willing to relocate", "18 years">>

noQuestions == <<"require sponsorship", "need visa", "been convicted">>

AnyIn(text, qs) == \E q \in SeqToSet(qs) : Contains(text, q)

\* the yes/no radio pass: every radio of a yes question whose label or value
\* says yes is clicked and counted, and likewise for the no questions
RECURSIVE RadioPass(_, _, _)
RadioPass(f, i, filled) ==
    IF i > Len(f) THEN [form |-> f, filled |-> filled]
    ELSE IF ~IsChoice(f[i], {"radio"}) THEN RadioPass(f, i + 1, filled)
    ELSE LET q     == Desc(f[i])
             rText == Trim(Lower(f[i].label \o " " \o f[i].value))
             yes   == /\ AnyIn(q, yesQuestions)
                      /\ Contains(rText, "yes") \/ Lower(f[i].value) = "yes"
             no    == /\ AnyIn(q, noQuestions)
                      /\ Contains(rText, "no") \/ Lower(f[i].value) = "no"
             f1    == IF yes THEN ClickCtl(f, i) ELSE f
             f2    == IF no THEN ClickCtl(f1, i) ELSE f1
         IN  RadioPass(f2, i + 1, filled + (IF yes THEN 1 ELSE 0)
                                         + (IF no THEN 1 ELSE 0))

stateValues == <<"Texas", "TX", "texas", "tx">>

\* the option the state pass picks for one select: the hit of the first of
\* stateValues whose hit has a value, 0 when none has
StateHit(el) ==
    LET hitOf(t) == FirstOf({i \in 1..Len(el.options) :
                       \/ norm(el.options[i].text) = norm(stateValues[t])
                       \/ norm(el.options[i].value) = norm(stateValues[t])
                       \/ Contains(norm(el.options[i].text),
                                   norm(stateValues[t]))})
        good == {t \in 1..Len(stateValues) :
                    hitOf(t) # 0 /\ el.options[hitOf(t)].value # ""}
    IN  IF good = {} THEN 0
        ELSE hitOf(CHOOSE t \in good : \A u \in good : t <= u)

\* the state select pass: a select described as state, province or region
\* that is not yet set (no value, or its first option selected) is set to
\* the Texas option and counted
RECURSIVE StatePass(_, _, _)
StatePass(f, i, filled) ==
    IF i > Len(f) THEN [form |-> f, filled |-> filled]
    ELSE IF \/ Lower(f[i].tag) # "select"
            \/ ~AnyIn(Desc(f[i]), <<"state", "province", "region">>)
            \/ SelValue(f[i]) # "" /\ f[i].sel > 1
            \/ StateHit(f[i]) = 0
         THEN StatePass(f, i + 1, filled)
    ELSE StatePass(
           [f EXCEPT ![i] = SelectValue(f[i], f[i].options[StateHit(f[i])].value)],
           i + 1, filled + 1)

\* the radio pass and the state pass, each continuing the pass before it
RadioFrom(st) == RadioPass(st.form, 1, st.filled)

StateFrom(st) == StatePass(st.form, 1, st.filled)

\* fillProfile(p): the three passes in turn
fillProfile(f, p) == StateFrom(RadioFrom(AliasPass(p, f, 1, 0)))

\* a dict is the sequence of its <<key, value>> entries in insertion order
Has(d, k) == \E i \in 1..Len(d) : d[i][1] = k

Get(d, k, default) ==
    IF Has(d, k) THEN d[CHOOSE i \in 1..Len(d) : d[i][1] = k][2]
    ELSE default

setdefault(d, k, v) == IF Has(d, k) THEN d ELSE Append(d, <<k, v>>)

\* e.x || fallback: an absent or empty entry gives the fallback
OrElse(d, k, fallback) ==
    IF Get(d, k, "") = "" THEN fallback ELSE Get(d, k, "")

\* the three setVal attempts of applyEeo on the i-th control, a select
RECURSIVE EeoSelects(_, _, _, _)
EeoSelects(f, e, i, c) ==
    IF i > Len(f) THEN [form |-> f, c |-> c]
    ELSE IF Lower(f[i].tag) # "select" THEN EeoSelects(f, e, i + 1, c)
    ELSE LET d  == Desc(f[i])
             r1 == IF AnyIn(d, <<"race", "ethnicity">>)
                   THEN setVal(f[i], OrElse(e, "race",
                                            "Black or African American"))
                   ELSE Failed(f[i])
             r2 == IF AnyIn(d, <<"veteran", "protected veteran">>)
                   THEN setVal(r1.el, OrElse(e, "veteran", "No"))
                   ELSE Failed(r1.el)
             r3 == IF Contains(d, "disability")
                   THEN setVal(r2.el, OrElse(e, "disability", "No"))
                   ELSE Failed(r2.el)
         IN  EeoSelects([f EXCEPT ![i] = r3.el], e, i + 1,
                        c + (IF r1.ok THEN 1 ELSE 0)
                          + (IF r2.ok THEN 1 ELSE 0)
                          + (IF r3.ok THEN 1 ELSE 0))

\* if (clickChoice(...)) c++
Counted(r, c) == [form |-> r.form, c |-> c + (IF r.ok THEN 1 ELSE 0)]

EeoRace(s, e) ==
    Counted(clickChoice(s.form, <<"race", "ethnicity">>,
                        <<OrElse(e, "race", "Black or African American")>>),
            s.c)

EeoVeteran(s, e) ==
    Counted(clickChoice(s.form, <<"veteran", "protected veteran">>,
                        <<"No", "Decline", "I am not",
                          OrElse(e, "veteran", "No")>>),
            s.c)

EeoDisability(s, e) ==
    Counted(clickChoice(s.form, <<"disability">>,
                        <<"No", "I do not wish", "I don't wish",
                          OrElse(e, "disability", "No")>>),
            s.c)

\* applyEeo(e): the selects, then the three choice clicks
applyEeo(f, e) ==
    EeoDisability(EeoVeteran(EeoRace(EeoSelects(f, e, 1, 0), e), e), e)

\* load_profile(): the stored profile with the defaults for absent keys
load_profile(stored) ==
    LET p1  == setdefault(stored, "first_name", "Elijah")
        p2  == setdefault(p1, "last_name", "Wallis")
        p3  == setdefault(p2, "email", "elijahcwallis@gmail.com")
        p4  == setdefault(p3, "phone", "985-991-4360")
        p5  == setdefault(p4, "address_line1", "3201 Wynwood Dr")
        p6  == setdefault(p5, "city", "Plano")
        p7  == setdefault(p6, "state", "TX")
        p8  == setdefault(p7, "zip", "75074")
        p9  == setdefault(p8, "resume_path", "./resume.pdf")
        p10 == setdefault(p9, "sea_days_note",
                 "250 documented sea days with company letters attached.")
    IN  setdefault(p10, "eeo_defaults",
                   <<<<"race", "Black or African American">>,
                     <<"veteran", "No">>, <<"disability", "No">>>>)

state_map ==
    <<<<"TX", "Texas">>, <<"CA", "California">>, <<"FL", "Florida">>,
      <<"LA", "Louisiana">>, <<"NY", "New York">>, <<"VA", "Virginia">>,
      <<"MD", "Maryland">>, <<"NJ", "New Jersey">>, <<"PA", "Pennsylvania">>,
      <<"OH", "Ohio">>, <<"WA", "Washington">>, <<"OR", "Oregon">>,
      <<"AL", "Alabama">>, <<"GA", "Georgia">>, <<"SC", "South Carolina">>,
      <<"NC", "North Carolina">>, <<"CT", "Connecticut">>,
      <<"MA", "Massachusetts">>, <<"AK", "Alaska">>, <<"HI", "Hawaii">>>>

\* the payload apply_profile hands to fillProfile
payload(prof) ==
    LET state_abbrev == Get(prof, "state", "TX")
        state_full   == Get(state_map, state_abbrev, state_abbrev)
    IN  <<<<"first_name", Get(prof, "first_name", "")>>,
          <<"last_name", Get(prof, "last_name", "")>>,
          <<"full_name", Trim(Get(prof, "first_name", "") \o " "
                              \o Get(prof, "last_name", ""))>>,
          <<"email", Get(prof, "email", "")>>,
          <<"phone", Get(prof, "phone", "")>>,
          <<"address_line1", Get(prof, "address_line1", "")>>,
          <<"city", Get(prof, "city", "")>>,
          <<"state", state_full>>,
          <<"zip", Get(prof, "zip", "")>>,
          <<"pitch", Get(prof, "pitch", "")>>,
          <<"sea_days_note", Get(prof, "sea_days_note", "")>>,
          <<"date_available", "03/10/2026">>,
          <<"desired_pay", "Negotiable">>,
          <<"referred_by", "Online Job Board">>,
          <<"career_goals", "A rewarding career in the maritime and dredging industry where I can apply my 250 documented sea days of experience and Tankerman PIC certification.">>,
          <<"work_environment", "A collaborative, safety-focused maritime environment with hands-on operational work aboard dredging vessels.">>>>

\* return {filled, eeo}, with the document as applyEeo left it
Report(filled, b) == [form |-> b.form, filled |-> filled, eeo |-> b.c]

\* const eeo = applyEeo(...), after fillProfile returned a
ThenEeo(a, e) == Report(a.filled, applyEeo(a.form, e))

\* apply_profile's in-page script: fillProfile, then applyEeo
apply_profile(f, prof) ==
    ThenEeo(fillProfile(f, payload(prof)), Get(prof, "eeo_defaults", <<>>))

-----------------------------------------------------------------------------
(* The Field Matcher on small forms: FillSpec.                              *)

MaxControls == 2

MaxCalls == 2

\* the members of a set of indices, in increasing order
Ascending(S) ==
    CHOOSE q \in [1..Cardinality(S) -> S] :
        \A a, b \in 1..Cardinality(S) : a < b => q[a] < q[b]

\* the forms: up to MaxControls controls of the pool, in document order
Forms ==
    {[i \in 1..Cardinality(S) |-> ControlPool[Ascending(S)[i]]] :
        S \in {T \in SUBSET (1..Len(ControlPool)) :
                  Cardinality(T) \in 1..MaxControls}}

\* what profile.json may hold: nothing, or some keys of its own, among them
\* the pay the applicant asks for
StoredProfiles ==
    {<<>>,
     <<<<"first_name", "Ada">>, <<"state", "LA">>,
       <<"pitch", "I keep vessels running.">>,
       <<"desired_pay", "32 USD per hour">>>>}

FillInit ==
    /\ form \in Forms
    /\ form0 = form
    /\ fills = <<>>
    /\ profile \in {load_profile(s) : s \in StoredProfiles}
    /\ page = BlankPage /\ extra_markers = <<>>
    /\ success = NoSuccess /\ checks = 0
    /\ FlowIdle /\ SwarmIdle /\ HealIdle /\ RunIdle /\ AuxIdle

\* one apply_profile call: the in-page script runs through safe_eval, which
\* yields the default {filled: 0, eeo: 0} when the evaluation fails
ApplyProfile ==
    /\ Len(fills) < MaxCalls
    /\ \E evalOk \in BOOLEAN, out \in {apply_profile(form, profile)} :
         /\ form0' = form
         /\ form' = IF evalOk THEN out.form ELSE form
         /\ fills' = Append(fills,
                IF evalOk
                THEN [filled |-> out.filled, eeo |-> out.eeo, ran |-> TRUE]
                ELSE [filled |-> 0, eeo |-> 0, ran |-> FALSE])
    /\ UNCHANGED <<profile, detVars, flowVars, swarmVars, healVars, runVars,
                   auxVars>>

FillNext == ApplyProfile

FillSpec == FillInit /\ [][FillNext]_vars

-----------------------------------------------------------------------------
(* The Self-Heal Store: self_heal over the persisted run state, HealSpec.   *)

apply_pool ==
    <<"continue", "next", "proceed", "begin application", "start",
      "quick apply", "view details">>

submit_pool ==
    <<"confirm", "complete", "final submit", "send", "review", "done">>

success_pool ==
    <<"thanks for applying", "application has been submitted",
      "we received your application", "your application has been received">>

In(h, xs) == \E i \in 1..Len(xs) : xs[i] = h

\* a corrupted search: the head of the pool, whether or not it is present
FirstAbsent_head(hints, pool) == 1

\* a corrupted search: the last absent phrase of the pool
FirstAbsent_last(hints, pool) ==
    LET I == {i \in 1..Len(pool) : ~In(pool[i], hints)}
    IN  IF I = {} THEN 0 ELSE CHOOSE i \in I : \A j \in I : j <= i

\* the index of the first phrase of the pool that is not among the hints, 0
\* when the pool is exhausted
FirstAbsent(hints, pool) ==
    LET I == {i \in 1..Len(pool) : ~In(pool[i], hints)}
    IN  IF I = {} THEN 0 ELSE CHOOSE i \in I : \A j \in I : i <= j

\* a corrupted append: the new phrase takes the place of the last one
AppendFirst_replace(hints, pool, cond) ==
    IF cond /\ FirstAbsent(hints, pool) # 0
    THEN (IF hints = <<>> THEN <<>> ELSE SubSeq(hints, 1, Len(hints) - 1))
         \o <<pool[FirstAbsent(hints, pool)]>>
    ELSE hints

\* for h in pool: if h not in hints and cond: hints.append(h); break
AppendFirst(hints, pool, cond) ==
    IF cond /\ FirstAbsent(hints, pool) # 0
    THEN Append(hints, pool[FirstAbsent(hints, pool)])
    ELSE hints

\* an attempt's log file: whether it exists, and its content
NoLog == [exists |-> FALSE, text |-> ""]

LogOf(text) == [exists |-> TRUE, text |-> text]

\* log_path.read_text(...).lower() if log_path.exists() else ""
LogText(log) == IF log.exists THEN Lower(log.text) ELSE ""

\* "incomplete" in text or "no_strict" in text
Sentinel(text) == Contains(text, "incomplete") \/ Contains(text, "no_strict")

\* a corrupted self_heal that does not count the invocation
self_heal_uncounted(state, log) ==
    LET text == LogText(log)
    IN  [heal_count |-> state.heal_count,
         extra_apply_hints |->
            AppendFirst(state.extra_apply_hints, apply_pool, Sentinel(text)),
         extra_submit_hints |->
            AppendFirst(state.extra_submit_hints, submit_pool, Sentinel(text)),
         extra_success_markers |->
            AppendFirst(state.extra_success_markers, success_pool, TRUE)]

\* self_heal(attempt) on the loaded state: the state it saves and returns
self_heal(state, log) ==
    LET text == LogText(log)
    IN  [heal_count |-> state.heal_count + 1,
         extra_apply_hints |->
            AppendFirst(state.extra_apply_hints, apply_pool, Sentinel(text)),
         extra_submit_hints |->
            AppendFirst(state.extra_submit_hints, submit_pool, Sentinel(text)),
         extra_success_markers |->
            AppendFirst(state.extra_success_markers, success_pool, TRUE)]

MaxHeals == 3

NumAttempts == 2

Attempts == 1..NumAttempts

\* what an attempt left behind: no log, or a log with or without a sentinel
Logs ==
    {NoLog, LogOf("3 COMPLETE, 0 blocked"), LogOf("status: INCOMPLETE"),
     LogOf("detail=no_strict_confirmation")}

\* the run state self_heal finds: none stored, one that earlier heals left,
\* one edited by hand
StartStates ==
    {DefaultState,
     [heal_count |-> 3,
      extra_apply_hints |-> SubSeq(apply_pool, 1, 2),
      extra_submit_hints |-> SubSeq(submit_pool, 1, 2),
      extra_success_markers |-> SubSeq(success_pool, 1, 3)],
     [heal_count |-> 1,
      extra_apply_hints |-> <<"next", "apply here">>,
      extra_submit_hints |-> <<>>,
      extra_success_markers |-> <<"application has been submitted">>]}

HealInit ==
    /\ heal_state \in StartStates
    /\ heal_logs \in [Attempts -> Logs]
    /\ heal_hist = <<>>
    /\ page = BlankPage /\ extra_markers = <<>>
    /\ success = NoSuccess /\ checks = 0
    /\ FlowIdle /\ SwarmIdle /\ FormIdle /\ RunIdle /\ AuxIdle

\* one self_heal(attempt) call: load_state, the appends, save_state
SelfHeal(attempt) ==
    /\ Len(heal_hist) < MaxHeals
    /\ heal_state' = self_heal(heal_state, heal_logs[attempt])
    /\ heal_hist' = Append(heal_hist,
                           [attempt |-> attempt, before |-> heal_state,
                            after |-> heal_state'])
    /\ UNCHANGED <<heal_logs, detVars, flowVars, swarmVars, formVars, runVars,
                   auxVars>>

HealNext == \E attempt \in Attempts : SelfHeal(attempt)

HealSpec == HealInit /\ [][HealNext]_vars

\* self_heal invoked again and again on the state it saved, from the state
\* load_state() returns when none is stored: RepeatSpec.
MaxRepeats == 8

RepeatInit ==
    /\ heal_state = DefaultState
    /\ heal_logs \in [Attempts -> Logs]
    /\ heal_hist = <<>>
    /\ page = BlankPage /\ extra_markers = <<>>
    /\ success = NoSuccess /\ checks = 0
    /\ FlowIdle /\ SwarmIdle /\ FormIdle /\ RunIdle /\ AuxIdle

\* one more self_heal(attempt) call; heal_hist keeps the latest call only
SelfHealAgain(attempt) ==
    /\ heal_state.heal_count < MaxRepeats
    /\ heal_state' = self_heal(heal_state, heal_logs[attempt])
    /\ heal_hist' = <<[attempt |-> attempt, before |-> heal_state,
                       after |-> heal_state']>>
    /\ UNCHANGED <<heal_logs, detVars, flowVars, swarmVars, formVars, runVars,
                   auxVars>>

RepeatNext == \E attempt \in Attempts : SelfHealAgain(attempt)

RepeatSpec == RepeatInit /\ [][RepeatNext]_vars

-----------------------------------------------------------------------------
(* run_swarm(attempt, batch_size, headful) as main() calls it.  A worker    *)
(* task is followed through the steps that matter to the orchestrator:      *)
(* taking a semaphore slot, creating its context and page (outside any      *)
(* try), and returning the outcome its flow and handlers fixed.             *)

MAX_BATCH == 3

\* len(TARGETS) in the model (the source lists 10 targets)
NumTargets == 4

\* the --batch-size arguments tried: -MaxBatchArg .. MaxBatchArg
MaxBatchArg == 4

BatchArgs == (0 - MaxBatchArg)..MaxBatchArg

Min(a, b) == IF a < b THEN a ELSE b

Max(a, b) == IF a > b THEN a ELSE b

\* a clamp without the upper limit
ClampBatch_unlimited(n) == Max(1, n)

\* max(1, min(n, MAX_BATCH)), in main() and for the semaphore
ClampBatch(n) == Max(1, Min(n, MAX_BATCH))

\* the values worker assigns to status
OutcomeStatuses == {"COMPLETE", "BLOCKED", "INCOMPLETE"}

\* batch = TARGETS[i : i + batch_size], as 1-based indices
Batch(i) == i..Min(i + batch_size - 1, NumTargets)

\* a loop step that ignores the batch size
NextBatchStart_max(i) == i + MAX_BATCH

\* for i in range(0, len(TARGETS), batch_size)
NextBatchStart(i) == i + batch_size

RECURSIVE Outcomes(_, _)
\* the outcomes of targets lo..hi in task order, as gather returns them
Outcomes(lo, hi) ==
    IF lo > hi THEN <<>>
    ELSE <<<<lo, wstatus[lo]>>>> \o Outcomes(lo + 1, hi)

APPLY_HINTS ==
    <<"apply for this job", "apply now", "apply", "apply online",
      "start application", "continue application",
      "apply for this position", "apply today", "submit application",
      "type it in myself">>

SUBMIT_HINTS ==
    <<"submit", "submit application", "submit my application",
      "finish application", "complete application", "review and submit",
      "send", "send application", "save", "save application",
      "submit your application", "apply", "confirm">>

\* a worker head that reads no run state
WorkerHints_default(state, prof) ==
    [resume_path   |-> Get(prof, "resume_path", "./resume.pdf"),
     extra_markers |-> <<>>,
     extra_apply   |-> APPLY_HINTS,
     extra_submit  |-> SUBMIT_HINTS]

\* worker's head: resume_path, extra_markers, extra_apply, extra_submit
WorkerHints(state, prof) ==
    [resume_path   |-> Get(prof, "resume_path", "./resume.pdf"),
     extra_markers |-> state.extra_success_markers,
     extra_apply   |-> APPLY_HINTS \o state.extra_apply_hints,
     extra_submit  |-> SUBMIT_HINTS \o state.extra_submit_hints]

\* the number of results with the status given
CountStatus(rs, st) == Cardinality({i \in 1..Len(rs) : rs[i][2] = st})

\* a summary whose incomplete count forgets the blocked results
Summary_unblocked(rs) ==
    [total      |-> Len(rs),
     complete   |-> CountStatus(rs, "COMPLETE"),
     blocked    |-> CountStatus(rs, "BLOCKED"),
     incomplete |-> Len(rs) - CountStatus(rs, "COMPLETE")]

\* payload["summary"]
Summary(rs) ==
    [total      |-> Len(rs),
     complete   |-> CountStatus(rs, "COMPLETE"),
     blocked    |-> CountStatus(rs, "BLOCKED"),
     incomplete |-> Len(rs) - CountStatus(rs, "COMPLETE")
                           - CountStatus(rs, "BLOCKED")]

\* profile = load_profile(); state = load_state(): what run_swarm holds
\* before the first batch
LoadedRun ==
    /\ form = <<>> /\ form0 = <<>> /\ fills = <<>>
    /\ profile \in {load_profile(stored) : stored \in StoredProfiles}
    /\ run_state = heal_state
    /\ wseen = [t \in 1..NumTargets |-> <<>>]
    /\ summary = <<>>

SwarmInit ==
    /\ page = BlankPage
    /\ extra_markers = <<>>
    /\ success = NoSuccess
    /\ checks = 0
    /\ FlowIdle
    /\ HealIdle
    /\ LoadedRun
    /\ AuxIdle
    /\ batch_arg \in BatchArgs
    /\ batch_size = ClampBatch(batch_arg)
    /\ sem = ClampBatch(batch_size)
    /\ wpc = [t \in 1..NumTargets |-> "none"]
    /\ wstatus = [t \in 1..NumTargets |-> ""]
    /\ bstart = 1
    /\ run_pc = "launch"
    /\ results = <<>>

\* browser = await bt.launch(...) for chromium, then firefox
Launch ==
    /\ run_pc = "launch"
    /\ \E ok \in BOOLEAN : run_pc' = IF ok THEN "loop" ELSE "no_browser"
    /\ UNCHANGED <<detVars, flowVars, formVars, healVars, runVars, auxVars, batch_arg, batch_size, sem, wpc, wstatus,
                   bstart, results>>

\* tasks = [asyncio.create_task(worker(...)) for t in batch]
StartBatch ==
    /\ run_pc = "loop"
    /\ bstart <= NumTargets
    /\ wpc' = [t \in 1..NumTargets |->
                IF t \in Batch(bstart) THEN "created" ELSE wpc[t]]
    /\ run_pc' = "gather"
    /\ UNCHANGED <<detVars, flowVars, formVars, healVars, runVars, auxVars, batch_arg, batch_size, sem, wstatus,
                   bstart, results>>

\* the worker's head, which reads the state and the profile it was given,
\* and async with sem:
WorkerEnter(t) ==
    /\ run_pc = "gather"
    /\ wpc[t] = "created"
    /\ sem > 0
    /\ sem' = sem - 1
    /\ wpc' = [wpc EXCEPT ![t] = "setup"]
    /\ wseen' = [wseen EXCEPT ![t] = WorkerHints(run_state, profile)]
    /\ UNCHANGED <<detVars, flowVars, formVars, healVars, auxVars, batch_arg,
                   batch_size, wstatus, bstart, run_pc, results, run_state,
                   summary>>

\* new_context, new_page, page.route, page.add_init_script: a failure leaves
\* worker as an exception, releasing the slot
WorkerSetup(t) ==
    /\ run_pc = "gather"
    /\ wpc[t] = "setup"
    /\ \E ok \in BOOLEAN :
          IF ok
          THEN wpc' = [wpc EXCEPT ![t] = "flow"] /\ UNCHANGED sem
          ELSE wpc' = [wpc EXCEPT ![t] = "raised"] /\ sem' = sem + 1
    /\ UNCHANGED <<detVars, flowVars, formVars, healVars, runVars, auxVars, batch_arg, batch_size, wstatus, bstart,
                   run_pc, results>>

\* flow(), the handlers, context.close() and return {..., "status": status}
WorkerReturn(t) ==
    /\ run_pc = "gather"
    /\ wpc[t] = "flow"
    /\ \E st \in OutcomeStatuses : wstatus' = [wstatus EXCEPT ![t] = st]
    /\ wpc' = [wpc EXCEPT ![t] = "done"]
    /\ sem' = sem + 1
    /\ UNCHANGED <<detVars, flowVars, formVars, healVars, runVars, auxVars, batch_arg, batch_size, bstart, run_pc,
                   results>>

\* a gather that returns as soon as one task of the batch is done
GatherDone_first ==
    /\ run_pc = "gather"
    /\ \E t \in Batch(bstart) : wpc[t] = "done"
    /\ results' = results \o Outcomes(bstart, Min(bstart + batch_size - 1,
                                                   NumTargets))
    /\ bstart' = NextBatchStart(bstart)
    /\ run_pc' = "loop"
    /\ UNCHANGED <<detVars, flowVars, formVars, healVars, runVars, auxVars, batch_arg, batch_size, sem, wpc,
                   wstatus>>

\* batch_results = await asyncio.gather(*tasks); results.extend(batch_results)
GatherDone ==
    /\ run_pc = "gather"
    /\ \A t \in Batch(bstart) : wpc[t] = "done"
    /\ results' = results \o Outcomes(bstart, Min(bstart + batch_size - 1,
                                                   NumTargets))
    /\ bstart' = NextBatchStart(bstart)
    /\ run_pc' = "loop"
    /\ UNCHANGED <<detVars, flowVars, formVars, healVars, runVars, auxVars, batch_arg, batch_size, sem, wpc,
                   wstatus>>

\* gather re-raises the first exception of a task: run_swarm is left by it
GatherRaise ==
    /\ run_pc = "gather"
    /\ \E t \in Batch(bstart) : wpc[t] = "raised"
    /\ run_pc' = "aborted"
    /\ UNCHANGED <<detVars, flowVars, formVars, healVars, runVars, auxVars, batch_arg, batch_size, sem, wpc,
                   wstatus, bstart, results>>

\* await browser.close(); the summary; write_json; return payload
Finish ==
    /\ run_pc = "loop"
    /\ bstart > NumTargets
    /\ run_pc' = "returned"
    /\ summary' = Summary(results)
    /\ UNCHANGED <<detVars, flowVars, formVars, healVars, auxVars, batch_arg,
                   batch_size, sem, wpc, wstatus, bstart, results, run_state,
                   wseen>>

SwarmNext ==
    \/ Launch \/ StartBatch
    \/ \E t \in 1..NumTargets : WorkerEnter(t)
    \/ \E t \in 1..NumTargets : WorkerSetup(t)
    \/ \E t \in 1..NumTargets : WorkerReturn(t)
    \/ GatherDone \/ GatherRaise \/ Finish

SwarmSpec == SwarmInit /\ [][SwarmNext]_vars

\* run_swarm called with a batch size main() has not clamped: the batches
\* are cut with the size given, the semaphore with the clamped one
DirectInit ==
    /\ page = BlankPage
    /\ extra_markers = <<>>
    /\ success = NoSuccess
    /\ checks = 0
    /\ FlowIdle
    /\ HealIdle
    /\ LoadedRun
    /\ AuxIdle
    /\ batch_arg \in 1..MaxBatchArg
    /\ batch_size = batch_arg
    /\ sem = ClampBatch(batch_size)
    /\ wpc = [t \in 1..NumTargets |-> "none"]
    /\ wstatus = [t \in 1..NumTargets |-> ""]
    /\ bstart = 1
    /\ run_pc = "launch"
    /\ results = <<>>

DirectSpec == DirectInit /\ [][SwarmNext]_vars
\* a run during which self_heal may be invoked by another process: the run
\* state file is one that earlier heals or an edit left, the attempt logs
\* are those of an attempt that ended INCOMPLETE and of one never run
RunInit ==
    /\ page = BlankPage
    /\ extra_markers = <<>>
    /\ success = NoSuccess
    /\ checks = 0
    /\ FlowIdle
    /\ AuxIdle
    /\ heal_state \in StartStates
    /\ heal_logs = [a \in Attempts |->
                      IF a = 1 THEN LogOf("status: INCOMPLETE") ELSE NoLog]
    /\ heal_hist = <<>>
    /\ LoadedRun
    /\ batch_arg \in {1, MAX_BATCH}
    /\ batch_size = ClampBatch(batch_arg)
    /\ sem = ClampBatch(batch_size)
    /\ wpc = [t \in 1..NumTargets |-> "none"]
    /\ wstatus = [t \in 1..NumTargets |-> ""]
    /\ bstart = 1
    /\ run_pc = "launch"
    /\ results = <<>>

\* the run's steps, or main() of another process taking --self-heal for
\* the first attempt
RunNext ==
    \/ SwarmNext
    \/ SelfHeal(1)

RunSpec == RunInit /\ [][RunNext]_vars

-----------------------------------------------------------------------------
(* follow_popup(page_ref, ctx): what the worker does with a page that a     *)
(* click opened in its context.  A page is [host, path, open, routed,       *)
(* helper]: its URL parts, whether it is still open, whether route_handler  *)
(* and the init script are registered on it.  ctx.pages are the open ones.  *)

SOCIAL_DOMAINS == {"facebook.com", "twitter.com", "x.com", "linkedin.com",
                   "instagram.com", "youtube.com", "tiktok.com",
                   "pinterest.com"}

\* the clicks followed by a follow_popup call in one run of the model
MaxClicks == 2

NewPage(host, path) ==
    [host |-> host, path |-> path, open |-> TRUE, routed |-> FALSE,
     helper |-> FALSE]

\* the pages a click opens: share dialogs of social sites, applicant
\* tracking systems, one of them reached through a social referral link
PopupPages ==
    {NewPage("www.linkedin.com", "/share?u=acme"),
     NewPage("x.com", "/intent/post"),
     NewPage("jobs.lever.co", "/acme/17/apply"),
     NewPage("jobs.lever.co", "/a?src=LinkedIn.com"),
     NewPage("apply.paychex.com", "/job/17"),
     NewPage("boards.greenhouse.io", "/acme")}

\* new_page.url
PageUrl(p) == "https://" \o p.host \o p.path

\* any(sd in popup_url for sd in SOCIAL_DOMAINS)
IsSocialUrl(url) == \E sd \in SOCIAL_DOMAINS : Contains(url, sd)

\* ctx.pages as indices of ctx_pages
OpenPages == {i \in 1..Len(ctx_pages) : ctx_pages[i].open}

\* pages[-1]
LastOpen == CHOOSE i \in OpenPages : \A j \in OpenPages : j <= i

PopupInit ==
    /\ page = BlankPage /\ extra_markers = <<>>
    /\ success = NoSuccess /\ checks = 0
    /\ FlowIdle /\ SwarmIdle /\ FormIdle /\ HealIdle /\ RunIdle
    /\ artifacts = {}
    /\ files = {} /\ run_attempt = 0
    /\ req = <<>> /\ resolved = <<>>
    /\ sub_pc = "idle" /\ submit_responses = <<>> /\ sub_acts = <<>>
    /\ ctx_pages = <<[NewPage("acme-marine.com", "/careers")
                        EXCEPT !.routed = TRUE, !.helper = TRUE]>>
    /\ page_ref = 1
    /\ pop_pc = "click"
    /\ pop_calls = 0

\* a click on the active page, which may open a new page in the context
PopupClick ==
    /\ pop_pc = "click"
    /\ pop_calls < MaxClicks
    /\ \/ /\ \E np \in PopupPages : ctx_pages' = Append(ctx_pages, np)
          /\ pop_pc' = "opened"
       \/ /\ UNCHANGED ctx_pages
          /\ pop_pc' = "same"
    /\ UNCHANGED <<page_ref, pop_calls>>
    /\ UNCHANGED <<detVars, flowVars, swarmVars, formVars, healVars, runVars,
                   artVars, fileVars, routeVars, subVars>>

\* page = await follow_popup(page, context): one page only; a page taken
\* for a social one (closed, if close() does not fail); a page adopted; or
\* route() or add_init_script() raising, which leaves follow_popup
follow_popup ==
    /\ pop_pc \in {"opened", "same"}
    /\ pop_calls' = pop_calls + 1
    /\ IF Cardinality(OpenPages) > 1
       THEN LET n == LastOpen IN
            IF IsSocialUrl(Lower(PageUrl(ctx_pages[n])))
            THEN /\ \E closed \in BOOLEAN :
                       ctx_pages' = [ctx_pages EXCEPT ![n].open = ~closed]
                 /\ pop_pc' = "click"
                 /\ UNCHANGED page_ref
            ELSE \E routeOk \in BOOLEAN, initOk \in BOOLEAN :
                   /\ ctx_pages' = [ctx_pages EXCEPT
                                      ![n].routed = @ \/ routeOk,
                                      ![n].helper = @ \/ (routeOk /\ initOk)]
                   /\ IF routeOk /\ initOk
                      THEN pop_pc' = "click" /\ page_ref' = n
                      ELSE pop_pc' = "raised" /\ UNCHANGED page_ref
       ELSE /\ pop_pc' = "click"
            /\ UNCHANGED <<ctx_pages, page_ref>>
    /\ UNCHANGED <<detVars, flowVars, swarmVars, formVars, healVars, runVars,
                   artVars, fileVars, routeVars, subVars>>

PopupNext == PopupClick \/ follow_popup

PopupSpec == PopupInit /\ [][PopupNext]_vars

-----------------------------------------------------------------------------
(* route_handler(route, req), registered for every URL of a page: one       *)
(* request of a bounded family, one call of the handler.                    *)

BLOCKED_RESOURCE_TYPES == {"image", "media", "font"}

BLOCKED_EXTENSIONS ==
    {".png", ".jpg", ".jpeg", ".webp", ".gif", ".svg", ".ico", ".mp4",
     ".webm", ".mov", ".avi", ".woff", ".woff2", ".ttf", ".otf", ".eot"}

BLOCKED_DOMAINS ==
    {"google-analytics", "googletagmanager", "doubleclick", "facebook.net",
     "hotjar", "segment"}

\* u.endswith(suffix)
EndsWith(str, suffix) ==
    /\ Len(str) >= Len(suffix)
    /\ SubSeq(str, Len(str) - Len(suffix) + 1, Len(str)) = suffix

\* a decision that looks at the resource type alone
Resolution_type(resource_type, u) ==
    IF resource_type \in BLOCKED_RESOURCE_TYPES THEN "abort" ELSE "continue"

\* the three tests of route_handler on the resource type and on u, the
\* lowercased URL: the first that holds aborts, otherwise continue_()
Resolution(resource_type, u) ==
    IF resource_type \in BLOCKED_RESOURCE_TYPES THEN "abort"
    ELSE IF \E ext \in BLOCKED_EXTENSIONS :
               EndsWith(u, ext) \/ Contains(u, ext \o "?") THEN "abort"
    ELSE IF \E d \in BLOCKED_DOMAINS : Contains(u, d) THEN "abort"
    ELSE "continue"

route_handler(r) == Resolution(r.resource_type, Lower(r.url))

ResourceTypes ==
    {"image", "media", "font", "stylesheet", "script", "document", "xhr"}

RequestUrls ==
    {"https://acme.com/careers",
     "https://acme.com/site.css",
     "https://acme.com/app.js",
     "https://acme.com/img/logo.png",
     "https://acme.com/img/LOGO.PNG",
     "https://acme.com/img/logo.png?v=3",
     "https://acme.com/dl?f=cv.jpg?s=1&t=2",
     "https://acme.com/png-guide",
     "https://acme.com/fonts/a.woff2",
     "https://acme.com/v/tour.mp4",
     "https://acme.com/jobs/segment-lead",
     "https://cdn.segment.com/a.js",
     "https://www.googletagmanager.com/gtm.js",
     "https://connect.facebook.net/sdk.js",
     "https://Static.HotJar.com/c/h.js"}

Requests ==
    {[url |-> u, resource_type |-> t] : u \in RequestUrls, t \in ResourceTypes}

RouteInit ==
    /\ page = BlankPage /\ extra_markers = <<>>
    /\ success = NoSuccess /\ checks = 0
    /\ FlowIdle /\ SwarmIdle /\ FormIdle /\ HealIdle /\ RunIdle
    /\ artifacts = {}
    /\ files = {} /\ run_attempt = 0
    /\ ctx_pages = <<>> /\ page_ref = 0 /\ pop_pc = "idle" /\ pop_calls = 0
    /\ sub_pc = "idle" /\ submit_responses = <<>> /\ sub_acts = <<>>
    /\ req \in Requests
    /\ resolved = <<>>

\* the handler's call for the intercepted request: route.abort() or
\* route.continue_()
RouteHandler ==
    /\ resolved = <<>>
    /\ \E how \in {route_handler(req)} : resolved' = Append(resolved, how)
    /\ UNCHANGED req
    /\ UNCHANGED <<detVars, flowVars, swarmVars, formVars, healVars, runVars,
                   artVars, fileVars, popVars, subVars>>

RouteNext == RouteHandler

RouteSpec == RouteInit /\ [][RouteNext]_vars

-----------------------------------------------------------------------------
(* The submit block of one fill/submit cycle: the response listener, the    *)
(* three submit tiers and the waits between them, during which responses    *)
(* of the page arrive.                                                      *)

\* the responses recorded in one run of the model
MaxResponses == 2

\* the responses a form page receives: its own POST, the PUT of a draft
\* autosave, a background call of an analytics API, a style sheet
Responses ==
    {[method |-> "POST", url |-> "https://acme.com/apply"],
     [method |-> "PUT", url |-> "https://acme.com/draft/17"],
     [method |-> "GET", url |-> "https://acme.com/API/track?e=view"],
     [method |-> "GET", url |-> "https://acme.com/site.css"]}

\* _on_resp's test
Recorded(resp) ==
    \/ resp.method \in {"POST", "PUT", "PATCH"}
    \/ Contains(Lower(resp.url), "api")
    \/ Contains(Lower(resp.url), "bamboohr")

SubmitInit ==
    /\ page = BlankPage /\ extra_markers = <<>>
    /\ success = NoSuccess /\ checks = 0
    /\ FlowIdle /\ SwarmIdle /\ FormIdle /\ HealIdle /\ RunIdle
    /\ artifacts = {}
    /\ files = {} /\ run_attempt = 0
    /\ ctx_pages = <<>> /\ page_ref = 0 /\ pop_pc = "idle" /\ pop_calls = 0
    /\ req = <<>> /\ resolved = <<>>
    /\ sub_pc = "start"
    /\ submit_responses = <<>>
    /\ sub_acts = <<>>

SubmitRest ==
    UNCHANGED <<detVars, flowVars, swarmVars, formVars, healVars, runVars,
                artVars, fileVars, popVars, routeVars>>

\* submit_responses = []; page.on("response", _on_resp)
Listen ==
    /\ sub_pc = "start"
    /\ sub_pc' = "tier1"
    /\ UNCHANGED <<submit_responses, sub_acts>>
    /\ SubmitRest

\* _on_resp(resp), called while the flow is suspended at an await of the
\* block
OnResponse(resp) ==
    /\ sub_pc \in {"tier1", "tier2", "tier3", "settle"}
    /\ Len(submit_responses) < MaxResponses
    /\ Recorded(resp)
    /\ submit_responses' = Append(submit_responses, resp)
    /\ UNCHANGED <<sub_pc, sub_acts>>
    /\ SubmitRest

\* Tier 1: the click on button[type="submit"] if there is one (count or
\* click raising is caught), then js_wait
Tier1 ==
    /\ sub_pc = "tier1"
    /\ \E found \in BOOLEAN :
          sub_acts' = IF found THEN Append(sub_acts, "button_click")
                      ELSE sub_acts
    /\ sub_pc' = "tier2"
    /\ UNCHANGED submit_responses
    /\ SubmitRest

\* Tier 2: if not submit_responses: form.requestSubmit() through safe_eval
Tier2 ==
    /\ sub_pc = "tier2"
    /\ sub_acts' = IF submit_responses = <<>>
                   THEN Append(sub_acts, "requestSubmit")
                   ELSE sub_acts
    /\ sub_pc' = "tier3"
    /\ UNCHANGED submit_responses
    /\ SubmitRest

\* Tier 3: if not submit_responses: click_hints(page, extra_submit)
Tier3 ==
    /\ sub_pc = "tier3"
    /\ sub_acts' = IF submit_responses = <<>>
                   THEN Append(sub_acts, "hint_click")
                   ELSE sub_acts
    /\ sub_pc' = "settle"
    /\ UNCHANGED submit_responses
    /\ SubmitRest

\* the last js_wait, the diagnostics, finally: page.remove_listener(...)
Settle ==
    /\ sub_pc = "settle"
    /\ sub_pc' = "done"
    /\ UNCHANGED <<submit_responses, sub_acts>>
    /\ SubmitRest

SubmitNext ==
    \/ Listen
    \/ \E resp \in Responses : OnResponse(resp)
    \/ Tier1 \/ Tier2 \/ Tier3 \/ Settle

SubmitSpec == SubmitInit /\ [][SubmitNext]_vars

-----------------------------------------------------------------------------
(* The files the workers of one run write, named after slugify(company).    *)

\* the company names of TARGETS, in list order
TARGETS ==
    <<"Curtin Maritime", "Great Lakes Dredge & Dock", "Weeks Marine",
      "Manson Construction", "Callan Marine", "Cashman Dredging",
      "Viking Dredging", "Muddy Water Dredging", "Orion Government Services",
      "Moran Towing">>

DIGITS == "0123456789"

\* the characters the class [a-z0-9] holds
SlugChars == {Char(LOWER, i) : i \in 1..26} \cup {Char(DIGITS, i) : i \in 1..10}

\* s without the run of characters outside [a-z0-9] it starts with
RECURSIVE SkipRun(_)
SkipRun(s) ==
    IF s # "" /\ Char(s, 1) \notin SlugChars
    THEN SkipRun(SubSeq(s, 2, Len(s))) ELSE s

\* re.sub(r"[^a-z0-9]+", "-", s)
RECURSIVE SubRuns(_)
SubRuns(s) ==
    IF s = "" THEN ""
    ELSE IF Char(s, 1) \notin SlugChars
         THEN "-" \o SubRuns(SkipRun(s))
         ELSE Char(s, 1) \o SubRuns(SubSeq(s, 2, Len(s)))

\* str.strip("-")
RECURSIVE StripDash(_)
StripDash(s) ==
    IF s # "" /\ Char(s, 1) = "-" THEN StripDash(SubSeq(s, 2, Len(s)))
    ELSE IF s # "" /\ Char(s, Len(s)) = "-"
         THEN StripDash(SubSeq(s, 1, Len(s) - 1))
         ELSE s

\* slugify(text)
slugify(text) ==
    IF StripDash(SubRuns(Lower(text))) = "" THEN "target"
    ELSE StripDash(SubRuns(Lower(text)))

\* slug = slugify(company), for each target of the list
Slugs == [t \in 1..Len(TARGETS) |-> slugify(TARGETS[t])]

\* an int formatted in an f-string: its decimal digits
RECURSIVE Str(_)
Str(n) ==
    IF n < 10 THEN Char(DIGITS, n + 1)
    ELSE Str(n \div 10) \o Char(DIGITS, (n % 10) + 1)

\* the files a worker writes: the check's screenshot, markup and forensic
\* record, the blocked screenshot and the diagnostic markup
ArtifactKinds == {"success_png", "source_html", "forensic_json",
                  "blocked_png", "diag_html"}

\* a variant that names the files after the attempt alone
ArtifactPath_shared(slug, attempt, kind) ==
    CASE kind = "success_png" ->
           "proof/attempt" \o Str(attempt) \o "_success.png"
      [] kind = "source_html" ->
           "proof/source/attempt" \o Str(attempt) \o ".html"
      [] kind = "forensic_json" ->
           "logs/attempt" \o Str(attempt) \o "_forensic.json"
      [] kind = "blocked_png" ->
           "proof/attempt" \o Str(attempt) \o "_blocked.png"
      [] kind = "diag_html" ->
           "proof/source/attempt" \o Str(attempt) \o "_diag.html"

\* PROOF_DIR / f"{slug}_attempt{attempt}_success.png" and the like, relative
\* to ROOT
ArtifactPath(slug, attempt, kind) ==
    CASE kind = "success_png" ->
           "proof/" \o slug \o "_attempt" \o Str(attempt) \o "_success.png"
      [] kind = "source_html" ->
           "proof/source/" \o slug \o "_attempt" \o Str(attempt) \o ".html"
      [] kind = "forensic_json" ->
           "logs/" \o slug \o "_attempt" \o Str(attempt) \o "_forensic.json"
      [] kind = "blocked_png" ->
           "proof/" \o slug \o "_attempt" \o Str(attempt) \o "_blocked.png"
      [] kind = "diag_html" ->
           "proof/source/" \o slug \o "_attempt" \o Str(attempt)
               \o "_diag.html"

MaxWrites == 2

\* run_swarm(attempt, ...) has created its workers; none has written yet
FileInit ==
    /\ page = BlankPage /\ extra_markers = <<>>
    /\ success = NoSuccess /\ checks = 0
    /\ FlowIdle /\ SwarmIdle /\ FormIdle /\ HealIdle /\ RunIdle
    /\ artifacts = {}
    /\ ctx_pages = <<>> /\ page_ref = 0 /\ pop_pc = "idle" /\ pop_calls = 0
    /\ req = <<>> /\ resolved = <<>>
    /\ sub_pc = "idle" /\ submit_responses = <<>> /\ sub_acts = <<>>
    /\ files = {}
    /\ run_attempt \in Attempts

\* the worker of target t writes one of its files
WriteArtifact(t, kind) ==
    /\ Cardinality(files) < MaxWrites
    /\ files' = files \cup
                  {<<t, kind, ArtifactPath(Slugs[t], run_attempt, kind)>>}
    /\ UNCHANGED <<run_attempt, detVars, flowVars, swarmVars, formVars,
                   healVars, runVars, artVars, popVars, routeVars, subVars>>

FileNext ==
    \E t \in 1..Len(TARGETS), kind \in ArtifactKinds : WriteArtifact(t, kind)

FileSpec == FileInit /\ [][FileNext]_vars

-----------------------------------------------------------------------------
(* Properties of the Confirmation Detector, checked under DetSpec.          *)

AllMarkers == SeqToSet(STRICT_TEXT_MARKERS) \cup SeqToSet(extra_markers)

\* the text evidence: lowercased body text, a space, the modal text
EvidenceText == Lower(page.body) \o " " \o JoinSp(ModalFound(page.modals))

UrlMarkerMatches ==
    \E k \in SeqToSet(STRICT_URL_MARKERS) : Contains(Lower(page.url), k)

\* C4 as stated: after a check, ok is true if and only if some marker of the
\* curated list or of the run-state extras is a substring of the combined
\* page text, or some URL marker is a substring of the lowercased URL.
C4_OkIffMarkerIsSubstring ==
    checks = 1 =>
        (success.ok <=>
            \/ \E m \in AllMarkers : Contains(EvidenceText, m)
            \/ UrlMarkerMatches)

\* C4 amended: the marker is lowercased before it is searched in the
\* (lowercased) combined page text.
C4_OkIffLoweredMarkerIsSubstring ==
    checks = 1 =>
        (success.ok <=>
            \/ \E m \in AllMarkers : Contains(EvidenceText, Lower(m))
            \/ UrlMarkerMatches)

\* a check confirmed by a run-state marker alone, one that matches only
\* once lowercased
C4_Witness ==
    /\ checks = 1
    /\ success.ok
    /\ ~success.proof.url_match
    /\ success.proof.text_hits = <<"Your Interest">>

ReceivedBody == "We have received your application. Application Number: 4471."

GenericBody == "Welcome to our careers page"

\* C5: either signal alone confirms.  The "received" body at .../apply is
\* confirmed with url_match false and both matched phrases listed; a generic
\* body at .../thank-you is confirmed with url_match true and no curated
\* strict text marker among the hits.
C5_EitherSignalSuffices ==
    checks = 1 =>
        /\ (page.body = ReceivedBody /\ page.url = "https://example.com/apply") =>
              /\ success.ok
              /\ ~success.proof.url_match
              /\ "we have received your application"
                    \in SeqToSet(success.proof.text_hits)
              /\ "application number" \in SeqToSet(success.proof.text_hits)
        /\ (/\ page.body = GenericBody
            /\ page.modals = <<>>
            /\ page.url = "https://example.com/thank-you") =>
              /\ success.ok
              /\ success.proof.url_match
              /\ SeqToSet(success.proof.text_hits)
                    \cap SeqToSet(STRICT_TEXT_MARKERS) = {}
              /\ extra_markers = <<>> =>
                    success.proof.text_hits = <<"confirmation">>

\* the text-only scenario of C5 has been checked with an empty run state
C5_Witness ==
    /\ checks = 1
    /\ extra_markers = <<>>
    /\ page.modals = <<>>
    /\ page.body = ReceivedBody
    /\ page.url = "https://example.com/apply"
    /\ success.ok
    /\ ~success.proof.url_match
    /\ Len(success.proof.text_hits) = 3

MarketingCopy ==
    {"Apply today - entry level deckhand positions open",
     "Thank you for your interest in joining our crew. Apply today.",
     "Thank you for your interest"}

\* C6: a pre-submission page with a non-confirmation URL, whose text is
\* ordinary marketing copy ("Apply today ...", "thank you for your interest
\* ..."), is never CONFIRMED and matches no strict text marker.
C6_MarketingCopyNeverConfirms ==
    (/\ checks = 1
     /\ page.body \in MarketingCopy
     /\ page.modals = <<>>
     /\ extra_markers = <<>>
     /\ page.url = "https://example.com/careers") =>
        /\ ~success.ok
        /\ success.proof.text_hits = <<>>

\* C28 (as claimed): the body text is matched lowercased and with its
\* whitespace runs collapsed: whenever the body, so normalized, contains a
\* strict marker phrase, the check confirms and lists that phrase.
C28_MarkerMatchesNormalizedText ==
    checks = 1 =>
        \A m \in SeqToSet(STRICT_TEXT_MARKERS) :
            Contains(norm(page.body), m) =>
                /\ success.ok
                /\ m \in SeqToSet(success.proof.text_hits)

\* C29 (as claimed): the screenshot, the page source and the forensic record
\* are written only by a check that confirms; a check that does not confirm
\* writes none of them.
C29_ArtifactsOnlyWhenConfirmed ==
    (checks = 1 /\ ~success.ok) => artifacts = {}

(* C29 (amended): the page source and the forensic record are written only  *)
(* by a check that confirms; the screenshot is attempted by every check, so  *)
(* a check that does not confirm writes at most the screenshot; and the      *)
(* verdict is the one the text and URL evidence gives, with or without a     *)
(* screenshot.                                                               *)
C29_SourceAndRecordOnlyWhenConfirmed ==
    checks = 1 =>
        /\ artifacts \subseteq {"screenshot", "source", "forensic"}
        /\ (~success.ok => artifacts \subseteq {"screenshot"})
        /\ success.ok <=>
              \/ \E m \in AllMarkers : Contains(EvidenceText, Lower(m))
              \/ UrlMarkerMatches

\* a check that did not confirm and left a screenshot
C29_Witness ==
    /\ checks = 1
    /\ ~success.ok
    /\ artifacts = {"screenshot"}

-----------------------------------------------------------------------------
(* Properties of one worker's flow, checked under Spec.                     *)

Returned == pc = "returned"

\* C1: every outcome returned with status COMPLETE, on whichever path the
\* status was assigned and whatever extra markers the run state holds,
\* carries a non-empty marker in proof.text_hits or url_match = TRUE.
C1_CompleteCarriesEvidence ==
    (Returned /\ status = "COMPLETE") =>
        \/ \E i \in DOMAIN proof.text_hits : proof.text_hits[i] # ""
        \/ proof.url_match

FormOps == {"listing_click", "apply_click", "fill", "eeo", "upload", "submit"}

\* C7: a target whose landing page was classified dead/parked ends BLOCKED
\* with a detail naming dead_domain, and no listing click, apply click, fill,
\* EEO action, upload or submit was performed for it.
C7_DeadDomainEndsBlockedUntouched ==
    (Returned /\ classified = "dead_domain") =>
        /\ status = "BLOCKED"
        /\ Contains(detail, "dead_domain")
        /\ ops \cap FormOps = {}

\* C8: once a blocker has been classified the returned outcome is BLOCKED
\* with the blocker's reason: the deadline and exception handling never turn
\* it into COMPLETE or INCOMPLETE, also when the deadline expires during the
\* blocked-page screenshot.
C8_BlockerOutcomeIsFinal ==
    (Returned /\ classified # "") =>
        /\ status = "BLOCKED"
        /\ Contains(detail, "Blocked - External: ")

EntryClicks == {"cookie_click", "listing_click", "nav_click", "apply_click",
                "override_click"}

\* C9 (as claimed): every blocker is evaluated right after bootstrap, so a
\* landing page that is a login wall is never clicked on: no cookie-dismiss,
\* listing, application-entry or site-override click is performed for it.
C9_LoginWallBlockedBeforeAnyClick ==
    (pc # "start" /\ pc # "new_page" /\ pc # "goto"
        /\ detectLoginBlock(landing)) => ops \cap EntryClicks = {}

\* C9 (amended): the dead-domain, CAPTCHA and SMS classifications are made
\* right after bootstrap, before any page interaction; the login wall is
\* classified only after the cookie, listing, application-entry, override
\* and modal clicks were attempted, and before any fill, EEO action, upload
\* or submit; the in-form CAPTCHA is classified at the start of a cycle.
C9_BlockerCheckPlacement ==
    /\ pc \in {"dead_check", "captcha_check"} => ops = {}
    /\ classified \in {"dead_domain", "captcha_sms"} => ops = {}
    /\ (pc = "login_check" \/ classified = "login_required") =>
          /\ ops \subseteq EntryClicks \cup {"modal_click"}
          /\ cycle = 0
    /\ pc \in {"login_check", "login_shot"} => checks = 0
    /\ classified = "captcha_on_form" =>
          \/ cycle = 0 /\ ops \subseteq EntryClicks \cup {"modal_click"}
          \/ cycle > 0 /\ "fill" \in ops

\* a login-wall landing page classified only after an entry click
C9_Witness ==
    /\ detectLoginBlock(landing)
    /\ classified = "login_required"
    /\ "cookie_click" \in ops
    /\ Returned
    /\ status = "BLOCKED"

\* C10: when flow() ended by the deadline or by an exception, the handler
\* re-injected the helper, then ran the detector once more on the current
\* page, and the outcome is COMPLETE iff that check confirmed, INCOMPLETE
\* otherwise.
C10_HandlerRechecksBeforeOutcome ==
    /\ pc \in {"t_check", "e_check"} => reinjected /\ hcheck = "none"
    /\ (pc \in {"flow_done", "returned"} /\ ended \in {"timeout", "exception"}) =>
          /\ reinjected
          /\ hcheck \in {"ok", "no"}
          /\ \E bodyOk \in BOOLEAN, modalOk \in BOOLEAN :
                success = Checked(ReadPage(page, bodyOk, modalOk), extra_markers)
          /\ hcheck = "ok" <=> success.ok
          /\ status = "COMPLETE" <=> hcheck = "ok"
          /\ status = "INCOMPLETE" <=> hcheck = "no"

\* the deadline expired after a submit that landed on a confirmation page
C10_Witness ==
    /\ Returned
    /\ ended = "timeout"
    /\ "submit" \in ops
    /\ hcheck = "ok"
    /\ status = "COMPLETE"
    /\ detail = "timeout_with_strict_confirmation"

ContextDestroyed ==
    "Execution context was destroyed, most likely because of a navigation"

\* a submit was performed, a navigation destroyed the execution context under
\* an evaluation, and the worker returned with the browser on the
\* confirmation URL
DestroyedThenConfirmationUrl ==
    /\ Returned
    /\ "submit" \in ops
    /\ page.url = ThanksPage.url
    /\ swallowed \/ exc = ContextDestroyed

\* C11 (as claimed): when a submit's navigation destroys the context in the
\* middle of an evaluation and the browser lands on a confirmation URL, the
\* outcome is COMPLETE with the post-navigation detail.
C11_DestroyedContextIsPostNavigation ==
    DestroyedThenConfirmationUrl =>
        /\ status = "COMPLETE"
        /\ detail = "post_navigation_strict_confirmation"

\* C11 (amended): in that case the outcome is COMPLETE with url_match, and no
\* error leaves the worker; the detail names the post-navigation detection
\* only when the failure left flow() as an exception, it is the in-flow
\* "strict_confirmation_verified" when safe_eval absorbed the failure, and
\* the timeout detail when the deadline ended the flow.
C11_DestroyedContextStillCompletes ==
    /\ (swallowed \/ exc # "") => pc # "raised"
    /\ DestroyedThenConfirmationUrl =>
          /\ status = "COMPLETE"
          /\ proof.url_match
          /\ ended = "exception" =>
                detail = "post_navigation_strict_confirmation"
          /\ ended = "returned" => detail = "strict_confirmation_verified"
          /\ ended = "timeout" => detail = "timeout_with_strict_confirmation"

\* safe_eval absorbed the destroyed context and the in-cycle check confirmed
C11_Witness ==
    /\ DestroyedThenConfirmationUrl
    /\ swallowed
    /\ ended = "returned"
    /\ status = "COMPLETE"
    /\ detail = "strict_confirmation_verified"

-----------------------------------------------------------------------------
(* Properties of a run, checked under SwarmSpec.                            *)

\* C2: whatever --batch-size was given, the results list run_swarm returns
\* holds exactly one outcome per target, in target-list order, each with a
\* status among COMPLETE, BLOCKED, INCOMPLETE (and while the run is under
\* way the list is the ordered outcomes of the batches gathered so far).
C2_OneOutcomePerTargetInOrder ==
    /\ \A k \in 1..Len(results) :
          results[k][1] = k /\ results[k][2] \in OutcomeStatuses
    /\ Len(results) = Min(bstart - 1, NumTargets)
    /\ run_pc = "returned" => Len(results) = NumTargets

\* a run given a batch size above the maximum returned all the outcomes, of
\* all three statuses
C2_Witness ==
    /\ run_pc = "returned"
    /\ batch_arg > MAX_BATCH
    /\ Len(results) = NumTargets
    /\ results[1][2] = "COMPLETE"
    /\ results[2][2] = "BLOCKED"
    /\ results[NumTargets] = <<NumTargets, "INCOMPLETE">>

\* C3: no failure inside a worker (context or page creation, route or
\* init-script registration, the flow, the handlers' check) escapes it: every
\* worker returns an outcome and the run collects the other targets' outcomes.
C3_NoWorkerFailureEscapes ==
    /\ \A t \in DOMAIN wpc : wpc[t] # "raised"
    /\ run_pc # "aborted"


-----------------------------------------------------------------------------
(* Properties of the Field Matcher, checked under FillSpec.                 *)

\* the controls setVal refuses to write
Guarded(el) ==
    \/ el.disabled \/ el.readOnly \/ el.tabIndex < 0 \/ el.ariaHidden
    \/ norm(el.type) \in {"hidden", "file"}

\* the latest invocation wrote or clicked the i-th control: its value or
\* selected option changed, it became checked, or (a checkbox) it toggled
Touched(i) ==
    \/ form[i].value # form0[i].value
    \/ form[i].sel # form0[i].sel
    \/ form[i].checked /\ ~form0[i].checked
    \/ norm(form[i].type) = "checkbox" /\ form[i].checked # form0[i].checked

\* C13: no fill pass and no EEO resolution writes or clicks a control that is
\* disabled, read-only, hidden, a file input, of negative tab index or under
\* an aria-hidden ancestor: such a control keeps its value and checked state.
C13_GuardedControlsUntouched ==
    \A i \in 1..Len(form) : Guarded(form0[i]) => ~Touched(i)

\* C14: of two successive invocations on the same form, both of which ran in
\* the page, the second never reports a smaller filled count than the first.
C14_SecondCallFillsNoFewer ==
    \A k \in 1..(Len(fills) - 1) :
        (fills[k].ran /\ fills[k + 1].ran)
            => fills[k + 1].filled >= fills[k].filled


-----------------------------------------------------------------------------
(* Properties of the Self-Heal Store, checked under HealSpec.               *)

HintSets == {"extra_apply_hints", "extra_submit_hints", "extra_success_markers"}

PoolOf(k) ==
    CASE k = "extra_apply_hints" -> apply_pool
      [] k = "extra_submit_hints" -> submit_pool
      [] k = "extra_success_markers" -> success_pool

NoDup(xs) == \A i, j \in 1..Len(xs) : xs[i] = xs[j] => i = j

IsPrefix(a, b) == Len(a) <= Len(b) /\ SubSeq(b, 1, Len(a)) = a

Heals == 1..Len(heal_hist)

\* the lowered log text the n-th invocation read
HealText(n) == LogText(heal_logs[heal_hist[n].attempt])

\* C15: across self-heal invocations from a duplicate-free run state, each of
\* the three hint sets never loses an element, never shrinks and never holds
\* a duplicate.
C15_HintSetsGrowWithoutDuplicates ==
    /\ \A k \in HintSets : NoDup(heal_state[k])
    /\ \A n \in Heals : \A k \in HintSets :
          /\ SeqToSet(heal_hist[n].before[k])
                \subseteq SeqToSet(heal_hist[n].after[k])
          /\ Len(heal_hist[n].after[k]) >= Len(heal_hist[n].before[k])
          /\ NoDup(heal_hist[n].after[k])

\* two invocations have each enlarged a set that already held phrases
C15_Witness ==
    /\ Len(heal_hist) >= 2
    /\ heal_hist[1].before.extra_apply_hints # <<>>
    /\ \A n \in 1..2 :
          Len(heal_hist[n].after.extra_apply_hints)
            > Len(heal_hist[n].before.extra_apply_hints)

\* C16: an invocation whose log is missing or holds no failure sentinel
\* leaves all three hint sets unchanged.
C16_NoSentinelNoAppend ==
    \A n \in Heals :
        ~Sentinel(HealText(n)) =>
            \A k \in HintSets : heal_hist[n].after[k] = heal_hist[n].before[k]

\* the n-th and the next invocation were for the same attempt
Repeated(n) ==
    n + 1 \in Heals /\ heal_hist[n].attempt = heal_hist[n + 1].attempt

\* C17 as stated: invoking self-heal twice for the same attempt leaves the
\* same persisted run state as invoking it once.
C17_SecondHealChangesNothing ==
    \A n \in Heals :
        Repeated(n) => heal_hist[n + 1].after = heal_hist[n].after

\* C17, amended: a second invocation for the same attempt counts again and
\* only appends: each hint set after the first invocation is a prefix of the
\* set after the second, which is at most one phrase longer, and the two are
\* equal exactly when the set's pool is exhausted or, for the apply and
\* submit hints, the log holds no failure sentinel.
C17_SecondHealOnlyAppends ==
    \A n \in Heals :
        Repeated(n) =>
            /\ heal_hist[n + 1].after.heal_count
                  = heal_hist[n].after.heal_count + 1
            /\ \A k \in HintSets :
                  LET once  == heal_hist[n].after[k]
                      twice == heal_hist[n + 1].after[k]
                  IN  /\ IsPrefix(once, twice)
                      /\ Len(twice) <= Len(once) + 1
                      /\ twice = once <=>
                            \/ \A i \in 1..Len(PoolOf(k)) :
                                  In(PoolOf(k)[i], once)
                            \/ /\ k # "extra_success_markers"
                               /\ ~Sentinel(HealText(n))

\* a second invocation for the same attempt, on a log with a sentinel, that
\* appended a further apply hint
C17_Witness ==
    \E n \in Heals :
        /\ Repeated(n)
        /\ Sentinel(HealText(n))
        /\ Len(heal_hist[n + 1].after.extra_apply_hints)
             > Len(heal_hist[n].after.extra_apply_hints)

\* C18: one invocation adds at most one phrase to each hint set, and a phrase
\* it adds is one of that set's pool that the set did not hold.
C18_AtMostOnePoolPhrasePerSet ==
    \A n \in Heals : \A k \in HintSets :
        \/ heal_hist[n].after[k] = heal_hist[n].before[k]
        \/ \E i \in 1..Len(PoolOf(k)) :
              /\ ~In(PoolOf(k)[i], heal_hist[n].before[k])
              /\ heal_hist[n].after[k]
                   = Append(heal_hist[n].before[k], PoolOf(k)[i])

\* an invocation that added a phrase to each of the three sets, one of them
\* already holding phrases of its pool
C18_Witness ==
    \E n \in Heals :
        /\ heal_hist[n].before.extra_success_markers # <<>>
        /\ \A k \in HintSets :
              Len(heal_hist[n].after[k]) = Len(heal_hist[n].before[k]) + 1


-----------------------------------------------------------------------------
(* Properties of the batches: C19 under SwarmSpec, C20 under DirectSpec.    *)

\* the number of the batch target t is in, counted from 0
BatchOf(t) == (t - 1) \div batch_size

\* C19: no worker of a batch starts before every worker of the batches
\* before it has returned its outcome.
C19_BatchesAreSequential ==
    \A t, u \in 1..NumTargets :
        (BatchOf(u) < BatchOf(t) /\ wpc[t] # "none") => wpc[u] = "done"

\* a worker of the second batch is in its flow
C19_Witness ==
    \E t \in 1..NumTargets : BatchOf(t) = 1 /\ wpc[t] = "flow"

\* the workers holding a slot and an open browsing context
Holding == {t \in 1..NumTargets : wpc[t] \in {"setup", "flow"}}

-----------------------------------------------------------------------------
(* Properties of the run state, the profile and the report, checked under   *)
(* RunSpec and SwarmSpec.                                                   *)

Started(t) == wseen[t] # <<>>

(* C21: during a swarm run no step of a worker or of run_swarm changes the  *)
(* loaded run state or the profile, every worker that has started derived   *)
(* its marker and hint lists and its resume path from the state and profile *)
(* loaded at the start of the run, and the run state file changes only in a *)
(* step of self_heal.                                                       *)
C21_RunStateAndProfileFrozen ==
    /\ [][/\ run_state' = run_state
          /\ profile' = profile
          /\ (heal_state' # heal_state => SelfHeal(1))]_vars
    /\ [](\A t \in 1..NumTargets :
            Started(t) =>
              /\ wseen[t].extra_markers = run_state.extra_success_markers
              /\ wseen[t].extra_apply =
                    APPLY_HINTS \o run_state.extra_apply_hints
              /\ wseen[t].extra_submit =
                    SUBMIT_HINTS \o run_state.extra_submit_hints
              /\ wseen[t].resume_path =
                    Get(profile, "resume_path", "./resume.pdf"))

\* a worker started with loaded hints after self_heal rewrote the state file
C21_Witness ==
    /\ \E t \in 1..NumTargets : Started(t)
    /\ run_state.extra_apply_hints # <<>>
    /\ heal_state # run_state
    /\ heal_hist # <<>>

StatusCount(st) == Cardinality({t \in 1..NumTargets : wstatus[t] = st})

(* C22: in the report run_swarm writes, summary.total is the number of      *)
(* targets, summary.complete, summary.blocked and summary.incomplete are    *)
(* the numbers of targets whose worker returned that status, and the three  *)
(* add up to summary.total.                                                 *)
C22_SummaryCountsOutcomes ==
    summary # <<>> =>
        /\ summary.total = NumTargets
        /\ summary.complete = StatusCount("COMPLETE")
        /\ summary.blocked = StatusCount("BLOCKED")
        /\ summary.incomplete = StatusCount("INCOMPLETE")
        /\ summary.complete + summary.blocked + summary.incomplete
              = summary.total

\* a report over outcomes of all three kinds
C22_Witness ==
    /\ summary # <<>>
    /\ summary.complete > 0
    /\ summary.blocked > 0
    /\ summary.incomplete > 0

-----------------------------------------------------------------------------
(* Properties of the order of the worker's steps, checked under Spec.       *)

BootstrapPcs == {"goto"}

BlockerPcs == {"dead_check", "dead_shot", "captcha_check", "block_shot"}

LoginWallPcs == {"login_check", "login_shot"}

ListingPcs == {"cookies", "job_link", "nav_hints", "popup_a"}

EntryPcs == {"ats", "apply_hints", "popup_b", "overrides", "modals"}

CyclePcs == {"cycle_captcha", "captcha_shot", "fill", "upload", "fill_more",
             "submit", "cycle_check", "reapply"}

FinalPcs == {"final_check", "final_diag"}

\* the phases as the Navigator lists them: the login-wall classification is
\* one of the four of BLOCKER-CHECK
PhaseAsListed(p) ==
    CASE p \in BootstrapPcs -> 1
      [] p \in BlockerPcs \cup LoginWallPcs -> 2
      [] p \in ListingPcs -> 3
      [] p \in EntryPcs -> 4
      [] p \in CyclePcs -> 5
      [] p \in FinalPcs -> 6

\* the phases with the login-wall classification as a step of its own
\* between APPLICATION-ENTRY and the first cycle
PhaseAsRun(p) ==
    CASE p \in BootstrapPcs -> 1
      [] p \in BlockerPcs -> 2
      [] p \in ListingPcs -> 3
      [] p \in EntryPcs -> 4
      [] p \in LoginWallPcs -> 5
      [] p \in CyclePcs -> 6
      [] p \in FinalPcs -> 7

\* C23 (as claimed): the steps of flow() pass through BOOTSTRAP,
\* BLOCKER-CHECK, LISTING-DISCOVERY, APPLICATION-ENTRY, FILL-SUBMIT-CYCLE and
\* FINAL-CONFIRM in this order: a step stays in its phase or begins the next
\* one, never an earlier one and never one further on.
C23_PhasesInListedOrder ==
    [][(pc \in FlowPcs /\ pc' \in FlowPcs) =>
          PhaseAsListed(pc') \in {PhaseAsListed(pc), PhaseAsListed(pc) + 1}]_vars

(* C23 (amended): with the login-wall classification taken out of           *)
(* BLOCKER-CHECK and placed between APPLICATION-ENTRY and the first cycle,   *)
(* every step of flow() stays in its phase or begins the next one, only the  *)
(* fill/submit cycle is begun again, no form action or detector call comes   *)
(* before the cycle phase, and the phases are left only when flow() ends:    *)
(* by a return with BLOCKED or COMPLETE assigned, by the return after        *)
(* FINAL-CONFIRM, by the deadline or by an exception.                        *)
C23_PhasesInRunOrder ==
    /\ [][(pc \in FlowPcs /\ pc' \in FlowPcs) =>
            /\ PhaseAsRun(pc') \in {PhaseAsRun(pc), PhaseAsRun(pc) + 1}
            /\ (pc' = "cycle_captcha" /\ pc # "cycle_captcha") =>
                  pc \in {"login_check", "reapply"}]_vars
    /\ [][(pc \in FlowPcs /\ pc' \notin FlowPcs) =>
            /\ ended' \in {"returned", "timeout", "exception"}
            /\ (ended' = "returned" /\ pc \notin FinalPcs) =>
                  status' \in {"BLOCKED", "COMPLETE"}]_vars
    /\ [](pc \in FlowPcs /\ PhaseAsRun(pc) < 6 =>
            /\ ops \cap {"fill", "eeo", "upload", "submit"} = {}
            /\ checks = 0
            /\ cycle = 0)

\* the final phase reached after clicks of the listing and entry phases and
\* all the cycles
C23_Witness ==
    /\ pc = "final_diag"
    /\ cycle = CYCLES
    /\ {"listing_click", "apply_click", "fill", "submit"} \subseteq ops

(* C24: a worker runs at most CYCLES fill/submit cycles; the detector is    *)
(* called after the submit step of every cycle, once; when that call        *)
(* confirms, flow() returns with COMPLETE and no page interaction follows;   *)
(* when it does not, the apply click is attempted again and only that step   *)
(* begins the next cycle.                                                    *)
C24_CyclesBoundedAndChecked ==
    /\ [](/\ cycle <= CYCLES
          /\ (pc \in CyclePcs => cycle < CYCLES)
          /\ (pc \in CyclePcs \ {"reapply"} => checks = cycle)
          /\ (pc = "reapply" => checks = cycle + 1 /\ ~success.ok))
    /\ [][(pc = "cycle_check" /\ pc' \in {"reapply", "flow_done"}) =>
            /\ checks' = checks + 1
            /\ (success'.ok => /\ pc' = "flow_done"
                               /\ status' = "COMPLETE"
                               /\ ended' = "returned")
            /\ (~success'.ok => pc' = "reapply")]_vars
    /\ [][pc \notin FlowPcs => ops' = ops]_vars
    /\ [][cycle' # cycle => pc = "reapply" /\ cycle' = cycle + 1]_vars

\* a flow confirmed by the check of its third cycle
C24_Witness ==
    /\ pc = "flow_done"
    /\ ended = "returned"
    /\ status = "COMPLETE"
    /\ cycle = 2
    /\ checks = 3

\* the exceptions of the model that are failures of one page interaction:
\* inputs.count() of upload_resume, new_page.route() of follow_popup
TransientFailures ==
    {"Execution context was destroyed, most likely because of a navigation",
     "Target page, context or browser has been closed"}

\* C25 (as claimed): a failure of a single page interaction never ends
\* flow(): it is never the exception that took flow() to worker's handler.
C25_TransientFailureNeverEndsFlow ==
    ended = "exception" => exc \notin TransientFailures

-----------------------------------------------------------------------------
(* Properties of the popup handling, checked under PopupSpec.               *)

\* the page's host is a social-media domain or a subdomain of one
OnSocialDomain(p) ==
    \E sd \in SOCIAL_DOMAINS : p.host = sd \/ EndsWith(p.host, "." \o sd)

\* C26 (as claimed): when follow_popup returns after a click that opened a
\* new page, then a page on a social-media domain is closed and the active
\* page is the one before; any other new page is still open and is the
\* active page, with route_handler and the init script registered on it.
C26_PopupClosedIffSocial ==
    [][(pop_pc = "opened" /\ pop_pc' = "click") =>
          LET n == Len(ctx_pages) IN
          IF OnSocialDomain(ctx_pages[n])
          THEN ~ctx_pages'[n].open /\ page_ref' = page_ref
          ELSE /\ ctx_pages'[n].open
               /\ page_ref' = n
               /\ ctx_pages'[n].routed
               /\ ctx_pages'[n].helper]_vars

-----------------------------------------------------------------------------
(* Properties of the route handler, checked under RouteSpec.                *)

TypeBlocked == req.resource_type \in BLOCKED_RESOURCE_TYPES

\* the URL, whatever its letter case, ends in one of the extensions
ExtensionAtEnd == \E ext \in BLOCKED_EXTENSIONS : EndsWith(Lower(req.url), ext)

\* the URL holds one of the extensions right before a "?"
ExtensionBeforeQuery ==
    \E ext \in BLOCKED_EXTENSIONS : Contains(Lower(req.url), ext \o "?")

TrackerInUrl == \E d \in BLOCKED_DOMAINS : Contains(Lower(req.url), d)

\* C27 (as claimed): the handler aborts a request iff its resource type is
\* image, media or font, or its URL ends in one of the extensions, or its
\* URL contains one of the tracker domains; every other request is
\* continued; every request is resolved exactly once.
C27_AbortIffTypeSuffixOrTracker ==
    resolved # <<>> =>
        /\ Len(resolved) = 1
        /\ resolved[1] \in {"abort", "continue"}
        /\ resolved[1] = "abort" <=>
              (TypeBlocked \/ ExtensionAtEnd \/ TrackerInUrl)

(* C27 (amended): the handler aborts a request iff its resource type is     *)
(* image, media or font, or its lowercased URL ends in one of the           *)
(* extensions or holds one of them right before a "?", or contains one of   *)
(* the tracker domains; every other request, a style sheet among them, is   *)
(* continued; every request is resolved exactly once.                       *)
C27_AbortIffTypeExtensionOrTracker ==
    resolved # <<>> =>
        /\ Len(resolved) = 1
        /\ resolved[1] \in {"abort", "continue"}
        /\ resolved[1] = "abort" <=>
              (TypeBlocked \/ ExtensionAtEnd \/ ExtensionBeforeQuery
                 \/ TrackerInUrl)

\* a script request aborted for the extension before its query string
C27_Witness ==
    /\ resolved = <<"abort">>
    /\ req.resource_type = "script"
    /\ ExtensionBeforeQuery
    /\ ~ExtensionAtEnd
    /\ ~TrackerInUrl

-----------------------------------------------------------------------------
(* Properties of the submit block, checked under SubmitSpec.                *)

\* C30 (as claimed): in every cycle the hint-text submit click and the
\* native form-submit invocation are both attempted, whatever the other
\* mechanisms did and whatever responses were observed.
C30_BothSubmitMechanismsAttempted ==
    sub_pc = "done" =>
        {"hint_click", "requestSubmit"} \subseteq SeqToSet(sub_acts)

-----------------------------------------------------------------------------
(* Properties of the profile handed to the Field Matcher, checked under     *)
(* FillSpec.                                                                *)

\* the keys of the payload that name one profile entry each ("full_name" is
\* composed of two, "state" is handed over as the state's full name)
ProfileKeys ==
    {"first_name", "last_name", "email", "phone", "address_line1", "city",
     "zip", "pitch", "sea_days_note", "date_available", "desired_pay",
     "referred_by", "career_goals", "work_environment"}

\* C31 (as claimed): for every recognized key the loaded profile holds, the
\* value handed to fillProfile is the profile's value; a hard-coded value is
\* handed over only for a key the profile does not hold.
C31_PayloadCarriesProfileValues ==
    fills # <<>> =>
        \A k \in ProfileKeys :
            Has(profile, k) =>
                Get(payload(profile), k, "") = Get(profile, k, "")

-----------------------------------------------------------------------------
(* Termination of a run, checked under SwarmLive: the run of SwarmSpec in   *)
(* which every provider operation that is awaited returns or fails, so a    *)
(* step that can be taken is eventually taken.                              *)

SwarmLive == SwarmSpec /\ WF_vars(SwarmNext)

\* C32 (as claimed): once a browser is launched every worker eventually
\* returns an outcome, and so the run eventually gathers all its batches
\* and writes its report.
C32_EveryRunWritesItsReport ==
    (run_pc = "loop") ~>
        (/\ run_pc = "returned"
         /\ summary # <<>>
         /\ \A t \in 1..NumTargets : wpc[t] = "done")

\* ---------------------------------------------------------------------
\* Evidence carried by unconfirmed outcomes
\* ---------------------------------------------------------------------

\* C33: every returned outcome whose status is BLOCKED or INCOMPLETE has a
\* proof with no matched phrases and url_match false, also when a deadline
\* or an exception cut the final-confirm phase short after its bundle had
\* been stored.
C33_UnconfirmedOutcomeHasNoEvidence ==
    (Returned /\ status \in {"BLOCKED", "INCOMPLETE"}) =>
        (proof.text_hits = <<>> /\ ~proof.url_match)

\* the deadline fell on the diagnostic evaluation, after the final check had
\* stored its bundle, and the handler's own check did not confirm
C33_Witness ==
    /\ Returned
    /\ status = "INCOMPLETE"
    /\ ended = "timeout"
    /\ cycle = CYCLES
    /\ checks = CYCLES + 2
    /\ hcheck = "no"

\* ---------------------------------------------------------------------
\* Browsing contexts
\* ---------------------------------------------------------------------

\* the worker has ended, with an outcome or with an exception
WorkerEnded == pc \in {"returned", "raised"}

\* C34 (as claimed): a worker that opened a browsing context has closed it
\* by the time it ends, whichever way it ends.
C34_OpenedContextIsClosed == WorkerEnded => ~context_open

\* ---------------------------------------------------------------------
\* The alias pass and select controls
\* ---------------------------------------------------------------------

\* the payload entries whose aliases match the i-th control of f and whose
\* value setVal accepts for it
Writers(f, p, i) ==
    {k \in 1..Len(p) : AliasHit(f[i], p[k][1]) /\ setVal(f[i], p[k][2]).ok}

FirstWriter(f, p, i) ==
    CHOOSE k \in Writers(f, p, i) : \A j \in Writers(f, p, i) : k <= j

\* the controls of f the alias pass writes
Written(f, p) == {i \in 1..Len(f) : Writers(f, p, i) # {}}

\* C35 (as claimed): in one alias pass a control keeps the value of the first
\* profile key that wrote it, and the count the pass returns does not exceed
\* the number of controls it wrote.
C35_EachControlWrittenOnce ==
    (fills # <<>> /\ fills[Len(fills)].ran) =>
        \E p \in {payload(profile)} :
        \E a \in {AliasPass(p, form0, 1, 0)} :
            /\ \A i \in Written(form0, p) :
                  a.form[i] = setVal(form0[i], p[FirstWriter(form0, p, i)][2]).el
            /\ a.filled <= Cardinality(Written(form0, p))

\* the option a select shows is one setVal may pick for want: it has a
\* value, and its text or its value is not empty and equals want, contains
\* it or is contained in it
OptionMatches(el, want) ==
    /\ el.sel \in 1..Len(el.options)
    /\ el.options[el.sel].value # ""
    /\ \E t \in {norm(el.options[el.sel].text), norm(el.options[el.sel].value)} :
          /\ t # ""
          /\ t = want \/ Contains(t, want) \/ Contains(want, t)

\* C36 (as claimed): whenever setVal reports a select as set, the option it
\* selected has a value and matches the wanted value; a placeholder option
\* without a value is never selected and counted.
C36_SelectedOptionMatches ==
    (fills # <<>> /\ fills[Len(fills)].ran) =>
        \E p \in {payload(profile)} :
            \A i \in 1..Len(form0) : \A k \in Writers(form0, p, i) :
                Lower(form0[i].tag) = "select" =>
                    OptionMatches(setVal(form0[i], p[k][2]).el, norm(p[k][2]))

\* ---------------------------------------------------------------------
\* Artifact paths
\* ---------------------------------------------------------------------

\* a slug as the specification describes it: not empty, made of lowercase
\* letters, digits and single separators, none at either end
WellFormedSlug(g) ==
    /\ g # ""
    /\ \A i \in 1..Len(g) : Char(g, i) \in SlugChars \cup {"-"}
    /\ ~Contains(g, "--")
    /\ Char(g, 1) # "-" /\ Char(g, Len(g)) # "-"

\* C37: within one run no two workers write the same path: the slugs of the
\* target list are well formed and pairwise distinct, and the files of
\* different workers, named after slug, attempt and kind, never coincide.
C37_NoTwoWorkersShareAPath ==
    /\ \A t \in 1..Len(TARGETS) : WellFormedSlug(Slugs[t])
    /\ \A t, u \in 1..Len(TARGETS) : t # u => Slugs[t] # Slugs[u]
    /\ \A a, b \in files :
          /\ a[1] # b[1] => a[3] # b[3]
          /\ a[3] = b[3] => a[2] = b[2]

\* two workers have each written their file of the same kind
C37_Witness ==
    \E a, b \in files : a[1] # b[1] /\ a[2] = b[2] /\ a[1] = 2

\* ---------------------------------------------------------------------
\* Repeated self-heal from the default state
\* ---------------------------------------------------------------------

\* C38: from the default run state, after any number of self-heal
\* invocations each extra hint set is a prefix of its candidate pool; an
\* invocation leaves an exhausted set unchanged and adds exactly one to the
\* heal counter, whatever the log holds.
C38_HintSetsArePoolPrefixes ==
    /\ IsPrefix(heal_state.extra_apply_hints, apply_pool)
    /\ IsPrefix(heal_state.extra_submit_hints, submit_pool)
    /\ IsPrefix(heal_state.extra_success_markers, success_pool)
    /\ Len(heal_state.extra_apply_hints) <= 7
    /\ Len(heal_state.extra_submit_hints) <= 6
    /\ Len(heal_state.extra_success_markers) <= 4
    /\ \A i \in 1..Len(heal_hist) :
          /\ heal_hist[i].after.heal_count = heal_hist[i].before.heal_count + 1
          /\ heal_hist[i].before.extra_apply_hints = apply_pool
               => heal_hist[i].after.extra_apply_hints = apply_pool
          /\ heal_hist[i].before.extra_submit_hints = submit_pool
               => heal_hist[i].after.extra_submit_hints = submit_pool
          /\ heal_hist[i].before.extra_success_markers = success_pool
               => heal_hist[i].after.extra_success_markers = success_pool

\* all three pools were exhausted and self_heal ran once more on a log that
\* holds a failure sentinel
C38_Witness ==
    /\ heal_hist # <<>>
    /\ heal_hist[1].before.extra_apply_hints = apply_pool
    /\ heal_hist[1].before.extra_submit_hints = submit_pool
    /\ heal_hist[1].before.extra_success_markers = success_pool
    /\ Sentinel(LogText(heal_logs[heal_hist[1].attempt]))
    /\ heal_state.heal_count = 8

\* the phrases an invocation appended to a list
Added(before, after) == SeqToSet(after) \ SeqToSet(before)

\* C39 (as claimed): every phrase self-heal appends is absent from the
\* built-in list it extends, so the effective lists a worker uses (built-in
\* plus extras) never hold the same phrase twice.
C39_AppendedPhrasesAreNew ==
    /\ \A i \in 1..Len(heal_hist) :
          /\ Added(heal_hist[i].before.extra_apply_hints,
                   heal_hist[i].after.extra_apply_hints)
               \cap SeqToSet(APPLY_HINTS) = {}
          /\ Added(heal_hist[i].before.extra_submit_hints,
                   heal_hist[i].after.extra_submit_hints)
               \cap SeqToSet(SUBMIT_HINTS) = {}
          /\ Added(heal_hist[i].before.extra_success_markers,
                   heal_hist[i].after.extra_success_markers)
               \cap SeqToSet(STRICT_TEXT_MARKERS) = {}
    /\ NoDup(WorkerHints(heal_state, <<>>).extra_apply)
    /\ NoDup(WorkerHints(heal_state, <<>>).extra_submit)
    /\ NoDup(STRICT_TEXT_MARKERS
             \o WorkerHints(heal_state, <<>>).extra_markers)

=============================================================================
